---- MODULE Spec2Model ----
(***************************************************************************)
(* Model of the admission core of Sistema-de-ADMISION-ULEAM:               *)
(*   - ServicioCupos / ValidadorAsignacion / Asignacion                    *)
(*     (src/app/models/Asignacion.py)                                      *)
(*   - CalculadorSegmento (src/app/models/PoliticaAccionAfirmativa.py)     *)
(*   - CalculadorPuntajePostulacion / PuntajePostulacion                   *)
(*     (src/app/models/PuntajePostulacion.py)                              *)
(*   - ExcelManager (src/app/database/excel_manager.py) and its validators *)
(*                                                                         *)
(* Scores (puntaje_total) are floats with two decimals in the source; the  *)
(* model keeps them as integers in hundredths (600.00 is 60000).           *)
(* A Python dict is a TLA+ function whose DOMAIN is the set of its keys.   *)
(* Python's True / False / None results are the strings "True", "False",   *)
(* "None" so that one history field can hold the result of any call.       *)
(***************************************************************************)
EXTENDS Integers, Sequences, FiniteSets, TLC

VARIABLES
    cupos,          \* ServicioCupos._cupos_por_carrera : dict carrera_id -> int
    asignaciones,   \* the Asignacion objects created so far, by id_asignacion
    ultimo,         \* history: the last call made, its arguments and its result
    previo,         \* history: the reducir_cupo call made just before the last call, if any
    pc,             \* race specification: position of each thread inside reducir_cupo
    leido,          \* race specification: value each thread loaded for the -= 1
    retorno,        \* race specification: what each thread's reducir_cupo returned
    cuposIniciales, \* the seats the program was configured with (race and conservation specifications)
    marcadores,     \* segment specification: the marker dict handed to calcular
    resultado,      \* segment specification: the (segmento, prioridad) calcular returned
    puntajes,       \* the PuntajePostulacion objects that exist, in order of creation
    contadorPuntajes, \* PuntajePostulacion._contador_puntajes (obtener_total())
    ultimoP,        \* history: outcome of the last PuntajePostulacion(...) call
    registros_nacionales, \* workbook: the data rows of sheet registros_nacionales
    dependientes,   \* workbook: per dependent sheet, the cedula_postulante of each data row
    pcE,            \* ExcelManager: the call each thread is in the middle of
    argE,           \* ExcelManager: the arguments of that call
    ultimoE,        \* history: the last ExcelManager call that returned
    cerrojo,   \* ExcelManager.lock: 0 when free, else the thread that holds it
    destinoE,   \* ExcelManager: the sheet and carrera_id of each thread's insertar_* call
    hojas,  \* workbook: per dependent sheet, its data rows (id, cedula_postulante, carrera_id)
    sesiones,   \* Flask: the session (rol, cedula) of each browser
    ultimaW,  \* history: the last web request handled, the rol of its session and the ExcelManager mutator it called
    evaluacion,   \* the Evaluacion object: its tipo_calculo, notes, extras and puntaje_total
    ultimaPAA,   \* history: the last PoliticaAccionAfirmativa call and the prioridad_segmento before it
    oferta   \* the OfertaCarrera object: its cupos_total, segment limits and cupos_asignados

vars == <<cupos, asignaciones, ultimo, previo, pc, leido, retorno, cuposIniciales,
          marcadores, resultado, puntajes, contadorPuntajes, ultimoP,
          registros_nacionales, dependientes, pcE, argE, ultimoE,
          cerrojo, destinoE, hojas,
          sesiones, ultimaW,
          evaluacion, ultimaPAA, oferta>>

----------------------------------------------------------------------------
(* Bounds of the model *)

MaxCupos == 2
MaxAsignaciones == 2
NumHilos == 3

(* Program constants *)

PUNTAJE_MINIMO == 600

\* the program the threads of the race specification compete for
CarreraDisputada == 101

Carreras == {101, 102}
\* seat counts handed to configurar_cupos, which takes any int
CantidadesConfigurables == (0 - 1) .. MaxCupos
\* capacities of the programs configured before assignments are made
Capacidades == 0 .. MaxCupos
\* scores in hundredths handed to the validator: 599.99, 600, 1000
Puntajes == {59999, 60000, 100000}
\* scores in hundredths of the Asignacion objects: 599.99 and 600
PuntajesAsignacion == {59999, 60000}

----------------------------------------------------------------------------
(* Python dict helpers *)

\* dict.get(k, default)
Get(d, k, def) == IF k \in DOMAIN d THEN d[k] ELSE def

\* d[k] = v
Put(d, k, v) == [x \in (DOMAIN d) \cup {k} |-> IF x = k THEN v ELSE d[x]]

DictVacio == [x \in {} |-> 0]

----------------------------------------------------------------------------
(* ServicioCupos *)

configurar_cupos(d, carrera_id, n) == Put(d, carrera_id, n)

obtener_cupos_disponibles(d, carrera_id) == Get(d, carrera_id, 0)

\* reducir_cupo with the test written ">= 0"
reducir_cupo_desde_cero(d, carrera_id) ==
    IF Get(d, carrera_id, 0) >= 0
    THEN [ret |-> "True", cupos |-> Put(d, carrera_id, Get(d, carrera_id, 0) - 1)]
    ELSE [ret |-> "False", cupos |-> d]

\* the -= 1 reads d[carrera_id]; it is only reached when the key is present
reducir_cupo(d, carrera_id) ==
    IF Get(d, carrera_id, 0) > 0
    THEN [ret |-> "True", cupos |-> Put(d, carrera_id, d[carrera_id] - 1)]
    ELSE [ret |-> "False", cupos |-> d]

\* incrementar_cupo that stores the value it read, without the + 1
incrementar_cupo_sin_sumar(d, carrera_id) ==
    Put(d, carrera_id, Get(d, carrera_id, 0))

incrementar_cupo(d, carrera_id) ==
    LET cupos_actuales == Get(d, carrera_id, 0)
    IN  Put(d, carrera_id, cupos_actuales + 1)

----------------------------------------------------------------------------
(* ValidadorAsignacion *)

validar_cupos_disponibles(d, carrera_id) ==
    IF obtener_cupos_disponibles(d, carrera_id) <= 0
    THEN [ok |-> "False", mensaje |-> "Sin cupos disponibles"]
    ELSE [ok |-> "True", mensaje |-> "None"]

\* validar_puntaje_minimo with the test written "<="
validar_puntaje_minimo_estricto(puntaje) ==
    IF puntaje <= PUNTAJE_MINIMO * 100
    THEN [ok |-> "False", mensaje |-> "Puntaje insuficiente"]
    ELSE [ok |-> "True", mensaje |-> "None"]

validar_puntaje_minimo(puntaje) ==
    IF puntaje < PUNTAJE_MINIMO * 100
    THEN [ok |-> "False", mensaje |-> "Puntaje insuficiente"]
    ELSE [ok |-> "True", mensaje |-> "None"]

\* validar_todos_requisitos with the two validations in the other order
validar_todos_requisitos_puntaje_primero(d, carrera_id, puntaje) ==
    LET vc == validar_cupos_disponibles(d, carrera_id)
        vp == validar_puntaje_minimo(puntaje)
    IN  IF vp.ok = "False" THEN vp
        ELSE IF vc.ok = "False" THEN vc
        ELSE [ok |-> "True", mensaje |-> "None"]

validar_todos_requisitos(d, carrera_id, puntaje) ==
    LET vc == validar_cupos_disponibles(d, carrera_id)
        vp == validar_puntaje_minimo(puntaje)
    IN  IF vc.ok = "False" THEN vc
        ELSE IF vp.ok = "False" THEN vp
        ELSE [ok |-> "True", mensaje |-> "None"]

----------------------------------------------------------------------------
(* Asignacion *)

ESTADOS_VALIDOS == {"ASIGNADO", "PENDIENTE", "RECHAZADO", "CANCELADO"}

_validar_rango_puntaje(puntaje) == ~(puntaje < 0 \/ puntaje > 1000 * 100)

\* __init__: a new object is PENDIENTE with no observaciones
NuevaAsignacion(carrera_id, puntaje) ==
    [carrera_id |-> carrera_id, puntaje_total |-> puntaje,
     estado |-> "PENDIENTE", observaciones |-> "None"]

validar_requisitos(d, a) ==
    LET v == validar_todos_requisitos(d, a.carrera_id, a.puntaje_total)
    IN  IF v.ok = "False"
        THEN [ret |-> "False", asig |-> [a EXCEPT !.observaciones = v.mensaje]]
        ELSE [ret |-> "True", asig |-> a]

\* asignar that goes on to reducir_cupo whatever validar_requisitos returned
asignar_sin_validar(d, a) ==
    LET v == validar_requisitos(d, a)
        r == reducir_cupo(d, a.carrera_id)
    IN  IF r.ret = "True"
        THEN [ret |-> "True", cupos |-> r.cupos,
              asig |-> [v.asig EXCEPT !.estado = "ASIGNADO",
                                      !.observaciones = "Asignacion exitosa"]]
        ELSE [ret |-> "False", cupos |-> r.cupos,
              asig |-> [v.asig EXCEPT !.estado = "RECHAZADO",
                                      !.observaciones = "No se pudo reducir cupo"]]

asignar(d, a) ==
    LET v == validar_requisitos(d, a)
        r == reducir_cupo(d, a.carrera_id)
    IN  IF v.ret = "False"
        THEN [ret |-> "False", cupos |-> d,
              asig |-> [v.asig EXCEPT !.estado = "RECHAZADO"]]
        ELSE IF r.ret = "True"
        THEN [ret |-> "True", cupos |-> r.cupos,
              asig |-> [v.asig EXCEPT !.estado = "ASIGNADO",
                                      !.observaciones = "Asignacion exitosa"]]
        ELSE [ret |-> "False", cupos |-> r.cupos,
              asig |-> [v.asig EXCEPT !.estado = "RECHAZADO",
                                      !.observaciones = "No se pudo reducir cupo"]]

\* cancelar that releases a seat without looking at estado
cancelar_siempre_libera(d, a) ==
    [cupos |-> incrementar_cupo(d, a.carrera_id),
     asig  |-> [a EXCEPT !.estado = "CANCELADO",
                         !.observaciones = "Asignacion cancelada por el postulante"]]

cancelar(d, a) ==
    [cupos |-> IF a.estado = "ASIGNADO" THEN incrementar_cupo(d, a.carrera_id) ELSE d,
     asig  |-> [a EXCEPT !.estado = "CANCELADO",
                         !.observaciones = "Asignacion cancelada por el postulante"]]

completar(a) ==
    IF a.estado = "ASIGNADO"
    THEN [a EXCEPT !.observaciones = "Proceso de asignacion completado"]
    ELSE a

----------------------------------------------------------------------------
(* History of calls *)

\* antes: the seat registry when the call started;
\* estadoAntes: the estado of the call's Asignacion when the call started
SinLlamada ==
    [op |-> "ninguna", carrera |-> 0, asig |-> 0, puntaje |-> 0, ret |-> "None",
     mensaje |-> "None", antes |-> DictVacio, estadoAntes |-> "None"]

Llamada(op, carrera, asig, puntaje, ret, mensaje, estadoAntes) ==
    [op |-> op, carrera |-> carrera, asig |-> asig, puntaje |-> puntaje, ret |-> ret,
     mensaje |-> mensaje, antes |-> cupos, estadoAntes |-> estadoAntes]

\* what is kept of the call before the last one: only a reducir_cupo is remembered
Resumen(u) ==
    IF u.op = "reducir_cupo"
    THEN [op |-> u.op, carrera |-> u.carrera, ret |-> u.ret,
          cupoAntes |-> Get(u.antes, u.carrera, 0)]
    ELSE [op |-> "otra", carrera |-> 0, ret |-> "None", cupoAntes |-> 0]

hilosVars == <<pc, leido, retorno, cuposIniciales>>
segmentoVars == <<marcadores, resultado>>
puntajeVars == <<puntajes, contadorPuntajes, ultimoP>>

SinHilos ==
    /\ pc = [h \in {} |-> "fin"]
    /\ leido = [h \in {} |-> 0]
    /\ retorno = [h \in {} |-> "None"]
    /\ cuposIniciales = 0

SinSegmento ==
    /\ marcadores = [k \in {} |-> "NO"]
    /\ resultado = [segmento |-> "None", prioridad |-> 0]

excelVars == <<registros_nacionales, dependientes, pcE, argE, ultimoE>>

SinLlamadaE == [op |-> "None", cedula |-> <<>>, ret |-> "None", mensaje |-> "",
                antes |-> <<>>]

\* the workbook and the manager's threads, idle: the state of these variables
\* in the specifications that do not open the workbook
SinExcel ==
    /\ registros_nacionales = <<>>
    /\ dependientes = <<>>
    /\ pcE = <<>>
    /\ argE = <<>>
    /\ ultimoE = SinLlamadaE

cerrojoVars == <<cerrojo, destinoE, hojas>>

\* the lock free and no dependent-sheet call under way: the state of these
\* variables in the specifications that do not model the lock
SinCerrojo ==
    /\ cerrojo = 0
    /\ destinoE = <<>>
    /\ hojas = <<>>

webVars == <<sesiones, ultimaW>>

SinPeticion == [ruta |-> "None", rol |-> "None", llamada |-> "None", cedula |-> <<>>,
                antes |-> <<>>]

\* no browser session and no request handled: the state of these variables in
\* the specifications that do not model the web routes
SinWeb ==
    /\ sesiones = <<>>
    /\ ultimaW = SinPeticion

modelosVars == <<evaluacion, ultimaPAA, oferta>>

\* no Evaluacion object: the state of this variable in the specifications that
\* do not model Evaluacion
SinEvaluacion == evaluacion = <<>>

SinLlamadaPAA == [op |-> "None", prioridadAntes |-> 0]

SinPolitica == ultimaPAA = SinLlamadaPAA

\* no OfertaCarrera object
SinOferta == oferta = <<>>

SinModelos ==
    /\ SinEvaluacion
    /\ SinPolitica
    /\ SinOferta

SinLlamadaP == [error |-> "None", contadorAntes |-> 0, creadosAntes |-> 0]

SinPuntajes ==
    /\ puntajes = <<>>
    /\ contadorPuntajes = 0
    /\ ultimoP = SinLlamadaP

----------------------------------------------------------------------------
(* SpecCupos: calls on one ServicioCupos and its ValidadorAsignacion, each  *)
(* call running to completion.                                             *)

InitCupos ==
    /\ cupos = DictVacio
    /\ asignaciones = <<>>
    /\ ultimo = SinLlamada
    /\ previo = Resumen(SinLlamada)
    /\ SinHilos
    /\ SinSegmento
    /\ SinPuntajes
    /\ SinExcel
    /\ SinCerrojo
    /\ SinWeb
    /\ SinModelos

ConfigurarCupos(c, n) ==
    /\ cupos' = configurar_cupos(cupos, c, n)
    /\ ultimo' = Llamada("configurar_cupos", c, 0, 0, "None", "None", "None")
    /\ previo' = Resumen(ultimo)
    /\ UNCHANGED <<asignaciones, hilosVars, segmentoVars, puntajeVars, excelVars, cerrojoVars, webVars, modelosVars>>

ReducirCupo(c) ==
    LET r == reducir_cupo(cupos, c)
    IN  /\ cupos' = r.cupos
        /\ ultimo' = Llamada("reducir_cupo", c, 0, 0, r.ret, "None", "None")
        /\ previo' = Resumen(ultimo)
        /\ UNCHANGED <<asignaciones, hilosVars, segmentoVars, puntajeVars, excelVars, cerrojoVars, webVars, modelosVars>>

\* the counter has no upper limit in the source; the model stops at MaxCupos
IncrementarCupo(c) ==
    /\ Get(cupos, c, 0) < MaxCupos
    /\ cupos' = incrementar_cupo(cupos, c)
    /\ ultimo' = Llamada("incrementar_cupo", c, 0, 0, "None", "None", "None")
    /\ previo' = Resumen(ultimo)
    /\ UNCHANGED <<asignaciones, hilosVars, segmentoVars, puntajeVars, excelVars, cerrojoVars, webVars, modelosVars>>

ValidarTodosRequisitos(c, p) ==
    LET v == validar_todos_requisitos(cupos, c, p)
    IN  /\ ultimo' = Llamada("validar_todos_requisitos", c, 0, p, v.ok, v.mensaje, "None")
        /\ previo' = Resumen(ultimo)
        /\ UNCHANGED <<cupos, asignaciones, hilosVars, segmentoVars, puntajeVars, excelVars, cerrojoVars, webVars, modelosVars>>

NextCupos ==
    \/ \E c \in Carreras, n \in CantidadesConfigurables : ConfigurarCupos(c, n)
    \/ \E c \in Carreras : ReducirCupo(c)
    \/ \E c \in Carreras : IncrementarCupo(c)
    \/ \E c \in Carreras, p \in Puntajes : ValidarTodosRequisitos(c, p)

SpecCupos == InitCupos /\ [][NextCupos]_vars

----------------------------------------------------------------------------
(* Spec: Asignacion objects sharing one ServicioCupos whose programs were   *)
(* configured before the first Asignacion was created; each call runs to   *)
(* completion.                                                             *)

\* the registries configurar_cupos can have built: any subset of the programs,
\* each with a configured capacity
RegistrosConfigurados ==
    UNION {[S -> Capacidades] : S \in SUBSET Carreras}

Init ==
    /\ cupos \in RegistrosConfigurados
    /\ asignaciones = <<>>
    /\ ultimo = SinLlamada
    /\ previo = Resumen(SinLlamada)
    /\ SinHilos
    /\ SinSegmento
    /\ SinPuntajes
    /\ SinExcel
    /\ SinCerrojo
    /\ SinWeb
    /\ SinModelos

CrearAsignacion(c, p) ==
    /\ Len(asignaciones) < MaxAsignaciones
    /\ _validar_rango_puntaje(p)
    /\ asignaciones' = Append(asignaciones, NuevaAsignacion(c, p))
    /\ ultimo' = Llamada("__init__", c, Len(asignaciones) + 1, p, "None", "None", "None")
    /\ UNCHANGED <<cupos, previo, hilosVars, segmentoVars, puntajeVars, excelVars, cerrojoVars, webVars, modelosVars>>

ValidarRequisitos(i) ==
    LET a == asignaciones[i]
        v == validar_requisitos(cupos, a)
    IN  /\ asignaciones' = [asignaciones EXCEPT ![i] = v.asig]
        /\ ultimo' = Llamada("validar_requisitos", a.carrera_id, i, a.puntaje_total,
                             v.ret, v.asig.observaciones, a.estado)
        /\ UNCHANGED <<cupos, previo, hilosVars, segmentoVars, puntajeVars, excelVars, cerrojoVars, webVars, modelosVars>>

Asignar(i) ==
    LET a == asignaciones[i]
        r == asignar(cupos, a)
    IN  /\ cupos' = r.cupos
        /\ asignaciones' = [asignaciones EXCEPT ![i] = r.asig]
        /\ ultimo' = Llamada("asignar", a.carrera_id, i, a.puntaje_total,
                             r.ret, r.asig.observaciones, a.estado)
        /\ UNCHANGED <<previo, hilosVars, segmentoVars, puntajeVars, excelVars, cerrojoVars, webVars, modelosVars>>

\* cancelar releases a seat without an upper limit; the model stops at MaxCupos
Cancelar(i) ==
    LET a == asignaciones[i]
        r == cancelar(cupos, a)
    IN  /\ Get(r.cupos, a.carrera_id, 0) <= MaxCupos
        /\ cupos' = r.cupos
        /\ asignaciones' = [asignaciones EXCEPT ![i] = r.asig]
        /\ ultimo' = Llamada("cancelar", a.carrera_id, i, a.puntaje_total,
                             "None", r.asig.observaciones, a.estado)
        /\ UNCHANGED <<previo, hilosVars, segmentoVars, puntajeVars, excelVars, cerrojoVars, webVars, modelosVars>>

Completar(i) ==
    LET a == asignaciones[i]
    IN  /\ asignaciones' = [asignaciones EXCEPT ![i] = completar(a)]
        /\ ultimo' = Llamada("completar", a.carrera_id, i, a.puntaje_total,
                             "None", completar(a).observaciones, a.estado)
        /\ UNCHANGED <<cupos, previo, hilosVars, segmentoVars, puntajeVars, excelVars, cerrojoVars, webVars, modelosVars>>

Next ==
    \/ \E c \in Carreras, p \in PuntajesAsignacion : CrearAsignacion(c, p)
    \/ \E i \in 1 .. Len(asignaciones) : ValidarRequisitos(i)
    \/ \E i \in 1 .. Len(asignaciones) : Asignar(i)
    \/ \E i \in 1 .. Len(asignaciones) : Cancelar(i)
    \/ \E i \in 1 .. Len(asignaciones) : Completar(i)

Spec == Init /\ [][Next]_vars

----------------------------------------------------------------------------
(* SpecCarrera: NumHilos threads each call reducir_cupo(CarreraDisputada)   *)
(* on one ServicioCupos configured with K < NumHilos seats.  The method    *)
(* takes no lock, so a thread may be suspended between the test            *)
(* "get(carrera_id, 0) > 0" and the two halves of "-= 1" (the load of the  *)
(* current value and the store of the value minus one).                    *)

Hilos == 1 .. NumHilos

InitCarrera ==
    /\ cuposIniciales \in 0 .. (NumHilos - 1)
    /\ cupos = configurar_cupos(DictVacio, CarreraDisputada, cuposIniciales)
    /\ pc = [h \in Hilos |-> "verificar"]
    /\ leido = [h \in Hilos |-> 0]
    /\ retorno = [h \in Hilos |-> "None"]
    /\ asignaciones = <<>>
    /\ ultimo = SinLlamada
    /\ previo = Resumen(SinLlamada)
    /\ SinSegmento
    /\ SinPuntajes
    /\ SinExcel
    /\ SinCerrojo
    /\ SinWeb
    /\ SinModelos

\* if self._cupos_por_carrera.get(carrera_id, 0) > 0:  ...  return False
Verificar(h) ==
    /\ pc[h] = "verificar"
    /\ IF Get(cupos, CarreraDisputada, 0) > 0
       THEN /\ pc' = [pc EXCEPT ![h] = "cargar"]
            /\ UNCHANGED retorno
       ELSE /\ pc' = [pc EXCEPT ![h] = "fin"]
            /\ retorno' = [retorno EXCEPT ![h] = "False"]
    /\ UNCHANGED <<cupos, leido, cuposIniciales, asignaciones, ultimo, previo,
                   segmentoVars, puntajeVars, excelVars, cerrojoVars, webVars, modelosVars>>

\* self._cupos_por_carrera[carrera_id] -= 1, first half: load the current value
Cargar(h) ==
    /\ pc[h] = "cargar"
    /\ leido' = [leido EXCEPT ![h] = cupos[CarreraDisputada]]
    /\ pc' = [pc EXCEPT ![h] = "guardar"]
    /\ UNCHANGED <<cupos, retorno, cuposIniciales, asignaciones, ultimo, previo,
                   segmentoVars, puntajeVars, excelVars, cerrojoVars, webVars, modelosVars>>

\* second half: store the loaded value minus one, then return True
Guardar(h) ==
    /\ pc[h] = "guardar"
    /\ cupos' = Put(cupos, CarreraDisputada, leido[h] - 1)
    /\ retorno' = [retorno EXCEPT ![h] = "True"]
    /\ pc' = [pc EXCEPT ![h] = "fin"]
    /\ UNCHANGED <<leido, cuposIniciales, asignaciones, ultimo, previo, segmentoVars, puntajeVars, excelVars, cerrojoVars, webVars, modelosVars>>

NextCarrera ==
    \/ \E h \in Hilos : Verificar(h)
    \/ \E h \in Hilos : Cargar(h)
    \/ \E h \in Hilos : Guardar(h)

SpecCarrera == InitCarrera /\ [][NextCarrera]_vars

----------------------------------------------------------------------------
(* CalculadorSegmento *)

ORDEN_SEGMENTOS ==
    <<"CUOTAS", "VULNERABILIDAD", "MERITO_ACADEMICO", "RECONOCIMIENTOS",
      "PUEBLOS_NACIONALIDADES", "BACHILLERES", "GENERAL">>

\* the ten keys calcular and _tiene_cuotas read
ClavesMarcadores ==
    {"condicion_socioeconomica", "ruralidad", "discapacidad", "pueblos_nacionalidades",
     "victima_violencia", "migrantes_retornados", "merito_academico",
     "vulnerabilidad_socioeconomica", "bachiller_pueblos_nacionalidad",
     "bachiller_periodo_academico"}

\* marcadores.get(k): None when the key is absent
Marcador(m, k) == Get(m, k, "None")

_tiene_cuotas(m) ==
    \/ Marcador(m, "condicion_socioeconomica") = "SI"
    \/ Marcador(m, "ruralidad") = "SI"
    \/ Marcador(m, "discapacidad") = "SI"
    \/ Marcador(m, "pueblos_nacionalidades") = "SI"
    \/ Marcador(m, "victima_violencia") = "SI"
    \/ Marcador(m, "migrantes_retornados") = "SI"

\* calcular testing the vulnerability marker before the quota markers
calcular_vulnerabilidad_primero(m) ==
    IF Marcador(m, "vulnerabilidad_socioeconomica") = "SI"
    THEN [segmento |-> "VULNERABILIDAD", prioridad |-> 2]
    ELSE IF _tiene_cuotas(m)
    THEN [segmento |-> "CUOTAS", prioridad |-> 1]
    ELSE IF Marcador(m, "merito_academico") = "SI"
    THEN [segmento |-> "MERITO_ACADEMICO", prioridad |-> 3]
    ELSE IF Marcador(m, "bachiller_pueblos_nacionalidad") = "SI"
    THEN [segmento |-> "PUEBLOS_NACIONALIDADES", prioridad |-> 5]
    ELSE IF Marcador(m, "bachiller_periodo_academico") = "SI"
    THEN [segmento |-> "BACHILLERES", prioridad |-> 6]
    ELSE [segmento |-> "GENERAL", prioridad |-> 7]

\* calcular numbering the segments it returns consecutively (1..6)
calcular_prioridad_consecutiva(m) ==
    IF _tiene_cuotas(m)
    THEN [segmento |-> "CUOTAS", prioridad |-> 1]
    ELSE IF Marcador(m, "vulnerabilidad_socioeconomica") = "SI"
    THEN [segmento |-> "VULNERABILIDAD", prioridad |-> 2]
    ELSE IF Marcador(m, "merito_academico") = "SI"
    THEN [segmento |-> "MERITO_ACADEMICO", prioridad |-> 3]
    ELSE IF Marcador(m, "bachiller_pueblos_nacionalidad") = "SI"
    THEN [segmento |-> "PUEBLOS_NACIONALIDADES", prioridad |-> 4]
    ELSE IF Marcador(m, "bachiller_periodo_academico") = "SI"
    THEN [segmento |-> "BACHILLERES", prioridad |-> 5]
    ELSE [segmento |-> "GENERAL", prioridad |-> 6]

calcular(m) ==
    IF _tiene_cuotas(m)
    THEN [segmento |-> "CUOTAS", prioridad |-> 1]
    ELSE IF Marcador(m, "vulnerabilidad_socioeconomica") = "SI"
    THEN [segmento |-> "VULNERABILIDAD", prioridad |-> 2]
    ELSE IF Marcador(m, "merito_academico") = "SI"
    THEN [segmento |-> "MERITO_ACADEMICO", prioridad |-> 3]
    ELSE IF Marcador(m, "bachiller_pueblos_nacionalidad") = "SI"
    THEN [segmento |-> "PUEBLOS_NACIONALIDADES", prioridad |-> 5]
    ELSE IF Marcador(m, "bachiller_periodo_academico") = "SI"
    THEN [segmento |-> "BACHILLERES", prioridad |-> 6]
    ELSE [segmento |-> "GENERAL", prioridad |-> 7]

----------------------------------------------------------------------------
(* SpecSegmento: calcular applied to every marker dict over the ten keys,   *)
(* each key 'SI', 'NO' or absent.                                          *)

SinResultado == [segmento |-> "None", prioridad |-> 0]

DictsDeMarcadores ==
    UNION {[S -> {"SI", "NO"}] : S \in SUBSET ClavesMarcadores}

InitSegmento ==
    /\ marcadores \in DictsDeMarcadores
    /\ resultado = SinResultado
    /\ cupos = DictVacio
    /\ asignaciones = <<>>
    /\ ultimo = SinLlamada
    /\ previo = Resumen(SinLlamada)
    /\ SinHilos
    /\ SinPuntajes
    /\ SinExcel
    /\ SinCerrojo
    /\ SinWeb
    /\ SinModelos

Calcular ==
    /\ resultado = SinResultado
    /\ resultado' = calcular(marcadores)
    /\ UNCHANGED <<marcadores, cupos, asignaciones, ultimo, previo, hilosVars, puntajeVars, excelVars, cerrojoVars, webVars, modelosVars>>

NextSegmento == Calcular

SpecSegmento == InitSegmento /\ [][NextSegmento]_vars

----------------------------------------------------------------------------
(* ValidadorNotasPuntaje, CalculadorPuntajePostulacion, PuntajePostulacion  *)
(* (src/app/models/PuntajePostulacion.py).  nota_grado and the two         *)
(* puntajes are integers in hundredths (9.5 is 950, 1000.0 is 100000);     *)
(* the weights are in percent, so the weighted sum is in units of 0.0001.  *)

NOTA_MINIMA == 0
NOTA_MAXIMA == 10
PUNTAJE_MINIMO_VALIDO == 0
PUNTAJE_MAXIMO == 1000
PESO_NOTA_GRADO == 30
PESO_EVALUACION == 50
PESO_MERITO == 20
FACTOR_NORMALIZACION_NOTA == 100

\* values handed to PuntajePostulacion(...): in range, and one out of range each
NotasGradoEntrada == {0, 950, 1000, 1001}
PuntajesEvaluacionEntrada == {0, 1, 85000, 100000, 100001}
PuntajesMeritosEntrada == {0 - 1, 0, 20000, 100000}

\* the field named by the ValueError raised, "None" when nothing is raised
validar_nota_grado(nota) ==
    IF ~(NOTA_MINIMA * 100 <= nota /\ nota <= NOTA_MAXIMA * 100)
    THEN "nota de grado" ELSE "None"

validar_puntaje(puntaje, tipo) ==
    IF ~(PUNTAJE_MINIMO_VALIDO * 100 <= puntaje /\ puntaje <= PUNTAJE_MAXIMO * 100)
    THEN tipo ELSE "None"

\* round(x, 2) of a float x whose exact value is t units of 0.0001: the nearest
\* hundredth; when t is exactly half way the binary float lies on either side
\* of the half (round(0.015, 2) is 0.01, round(0.025, 2) is 0.03), so both
\* neighbours are results
Redondear2(t) ==
    LET q == t \div 100
        r == t % 100
    IN  IF r < 50 THEN {q} ELSE IF r > 50 THEN {q + 1} ELSE {q, q + 1}

MinEntero(a, b) == IF a <= b THEN a ELSE b

\* calcular_puntaje_total with the merit component subtracted
calcular_puntaje_total_resta_meritos(nota_grado, puntaje_evaluacion, puntaje_meritos) ==
    LET puntaje_grado_normalizado == nota_grado * FACTOR_NORMALIZACION_NOTA
        componente_grado == puntaje_grado_normalizado * PESO_NOTA_GRADO
        componente_evaluacion == puntaje_evaluacion * PESO_EVALUACION
        componente_meritos == puntaje_meritos * PESO_MERITO
        puntaje_total == componente_grado + componente_evaluacion - componente_meritos
    IN  Redondear2(MinEntero(puntaje_total, PUNTAJE_MAXIMO * 10000))

\* calcular_puntaje_total with the weights of grade and evaluation exchanged
calcular_puntaje_total_pesos_cambiados(nota_grado, puntaje_evaluacion, puntaje_meritos) ==
    LET puntaje_grado_normalizado == nota_grado * FACTOR_NORMALIZACION_NOTA
        componente_grado == puntaje_grado_normalizado * PESO_EVALUACION
        componente_evaluacion == puntaje_evaluacion * PESO_NOTA_GRADO
        componente_meritos == puntaje_meritos * PESO_MERITO
        puntaje_total == componente_grado + componente_evaluacion + componente_meritos
    IN  Redondear2(MinEntero(puntaje_total, PUNTAJE_MAXIMO * 10000))

\* the set of values the call can return (one value, two on an exact half)
calcular_puntaje_total(nota_grado, puntaje_evaluacion, puntaje_meritos) ==
    LET puntaje_grado_normalizado == nota_grado * FACTOR_NORMALIZACION_NOTA
        componente_grado == puntaje_grado_normalizado * PESO_NOTA_GRADO
        componente_evaluacion == puntaje_evaluacion * PESO_EVALUACION
        componente_meritos == puntaje_meritos * PESO_MERITO
        puntaje_total == componente_grado + componente_evaluacion + componente_meritos
    IN  Redondear2(MinEntero(puntaje_total, PUNTAJE_MAXIMO * 10000))

\* __init__: the three validations in order; the first that fails raises
ErrorDeCreacion(nota_grado, puntaje_evaluacion, puntaje_meritos) ==
    IF validar_nota_grado(nota_grado) # "None"
    THEN validar_nota_grado(nota_grado)
    ELSE IF validar_puntaje(puntaje_evaluacion, "evaluacion") # "None"
    THEN validar_puntaje(puntaje_evaluacion, "evaluacion")
    ELSE validar_puntaje(puntaje_meritos, "meritos")

----------------------------------------------------------------------------
(* SpecPuntaje: PuntajePostulacion objects created one call at a time.      *)

MaxPuntajes == 2

InitPuntaje ==
    /\ SinPuntajes
    /\ SinExcel
    /\ SinCerrojo
    /\ SinWeb
    /\ SinModelos
    /\ cupos = DictVacio
    /\ asignaciones = <<>>
    /\ ultimo = SinLlamada
    /\ previo = Resumen(SinLlamada)
    /\ SinHilos
    /\ SinSegmento

\* PuntajePostulacion(nota_grado, puntaje_evaluacion, puntaje_meritos): the class
\* counter is incremented first, then the validations run, then the fields
\* and puntaje_final are set
CrearPuntaje(g, e, m) ==
    /\ contadorPuntajes < MaxPuntajes + 1
    /\ contadorPuntajes' = contadorPuntajes + 1
    /\ ultimoP' = [error |-> ErrorDeCreacion(g, e, m),
                   contadorAntes |-> contadorPuntajes,
                   creadosAntes |-> Len(puntajes)]
    /\ IF ErrorDeCreacion(g, e, m) # "None"
       THEN UNCHANGED puntajes
       ELSE /\ Len(puntajes) < MaxPuntajes
            /\ \E f \in calcular_puntaje_total(g, e, m) :
                   puntajes' = Append(puntajes,
                       [nota_grado |-> g, puntaje_evaluacion |-> e,
                        puntaje_meritos |-> m, puntaje_final |-> f])
    /\ UNCHANGED <<cupos, asignaciones, ultimo, previo, hilosVars, segmentoVars,
                   excelVars, cerrojoVars, webVars, modelosVars>>

NextPuntaje ==
    \E g \in NotasGradoEntrada, e \in PuntajesEvaluacionEntrada,
       m \in PuntajesMeritosEntrada : CrearPuntaje(g, e, m)

SpecPuntaje == InitPuntaje /\ [][NextPuntaje]_vars

----------------------------------------------------------------------------
(* ExcelManager (src/app/database/excel_manager.py) with CedulaValidator,  *)
(* EmailValidator and CalificacionValidator (src/app/database/             *)
(* validators.py).  A cedula is the sequence of its characters, a digit    *)
(* being its value.  A row of registros_nacionales keeps the columns       *)
(* cedula and calificacion; a row of a dependent sheet keeps its           *)
(* cedula_postulante.  Every `with self.lock:` block loads the workbook,   *)
(* works on it and saves it while holding the lock, so a block is one step.*)

NumHilosExcel == 2
MaxFilas == 3

HilosExcel == 1 .. NumHilosExcel

HojasDependientes == {"inscripciones", "evaluaciones", "asignaciones", "puntajes"}

\* the applicant the seed workbook holds, one that is not in it, and two
\* strings CedulaValidator rejects
CedulaSemilla == <<1, 3, 1, 6, 2, 0, 2, 0, 8, 2>>
CedulaNueva == <<0, 9, 1, 2, 3, 4, 5, 6, 7, 8>>
CedulaCorta == <<1, 2, 3>>
CedulaSinProvincia == <<2, 5, 1, 2, 3, 4, 5, 6, 7, 8>>
CedulasEntrada == {CedulaSemilla, CedulaNueva, CedulaCorta, CedulaSinProvincia}

\* a calificacion as a caller passes it: the key absent from datos, None, a
\* string float() rejects, a NaN ('nan' or float('nan')), or a number in
\* hundredths
Ausente == [tipo |-> "ausente", valor |-> 0]
Ninguna == [tipo |-> "None", valor |-> 0]
Texto == [tipo |-> "texto", valor |-> 0]
NaN == [tipo |-> "nan", valor |-> 0]
Num(v) == [tipo |-> "num", valor |-> v]
CalificacionesEntrada == {Ausente, Ninguna, Texto, NaN, Num(0 - 1), Num(950), Num(1001)}

CorreosEntrada == {"jean.flores@uleam.edu.ec", "sin-arroba"}

\* float comparisons: each is False when the operand is a NaN
MenorQue(c, n) == c.tipo = "num" /\ c.valor < n
MayorQue(c, n) == c.tipo = "num" /\ c.valor > n

\* CedulaValidator.validar: the message, "Cédula válida" when it accepts
validar_cedula(cedula) ==
    IF Len(cedula) = 0 THEN "Cédula es requerida"
    ELSE IF Len(cedula) # 10 THEN "Cédula debe tener exactamente 10 dígitos"
    ELSE IF \E i \in 1 .. Len(cedula) : cedula[i] \notin 0 .. 9
         THEN "Cédula debe contener solo números"
    ELSE IF 10 * cedula[1] + cedula[2] < 1 \/ 10 * cedula[1] + cedula[2] > 24
         THEN "Código de provincia inválido"
    ELSE "Cédula válida"

\* EmailValidator.validar on the two addresses of CorreosEntrada
validar_email(correo) ==
    IF correo = "" THEN "Email es requerido"
    ELSE IF correo = "sin-arroba" THEN "Formato de email inválido"
    ELSE "Email válido"

\* CalificacionValidator.validar of datos.get('calificacion')
validar_calificacion(calificacion) ==
    IF calificacion.tipo \in {"None", "ausente"} THEN "Calificación es requerida"
    ELSE IF calificacion.tipo = "texto" THEN "Calificación debe ser un número"
    ELSE IF MenorQue(calificacion, 0) THEN "Calificación no puede ser negativa"
    ELSE IF MayorQue(calificacion, 10 * 100) THEN "Calificación no puede ser mayor a 10"
    ELSE "Calificación válida"

\* the rows of a sheet whose cedula is the given one, by index
FilasDe(hoja, cedula) == {i \in 1 .. Len(hoja) : hoja[i].cedula = cedula}

\* obtener_registro_por_cedula(cedula) is not None
existe_registro(cedula) ==
    /\ validar_cedula(cedula) = "Cédula válida"
    /\ FilasDe(registros_nacionales, cedula) # {}

\* the first row the loop over ws.iter_rows(min_row=2) meets
PrimeraFila(S) == CHOOSE i \in S : \A j \in S : i <= j

\* ws.delete_rows(i, 1)
SinFila(hoja, i) == [k \in 1 .. Len(hoja) - 1 |-> IF k < i THEN hoja[k] ELSE hoja[k + 1]]

\* _eliminar_relacionados: the sheet without the rows of the cedula
SelectSeqDistintos(hoja, cedula) == SelectSeq(hoja, LAMBDA c : c # cedula)

SinArg == [cedula |-> <<>>, calificacion |-> Ausente]

Retorno(op, cedula, ret, mensaje) ==
    [op |-> op, cedula |-> cedula, ret |-> ret, mensaje |-> mensaje,
     antes |-> registros_nacionales]

----------------------------------------------------------------------------
(* SpecExcel: NumHilosExcel request threads call insertar_registro,         *)
(* actualizar_registro and eliminar_registro on the seed workbook.  Each    *)
(* method is two locked blocks: the read of existe_registro, then the       *)
(* write; the validations between them touch only the call's arguments.     *)

InitExcel ==
    /\ registros_nacionales = <<[cedula |-> CedulaSemilla, calificacion |-> Num(950)]>>
    /\ dependientes = [h \in HojasDependientes |-> <<CedulaSemilla>>]
    /\ pcE = [t \in HilosExcel |-> "libre"]
    /\ argE = [t \in HilosExcel |-> SinArg]
    /\ ultimoE = SinLlamadaE
    /\ SinCerrojo
    /\ SinWeb
    /\ SinModelos
    /\ SinPuntajes
    /\ cupos = DictVacio
    /\ asignaciones = <<>>
    /\ ultimo = SinLlamada
    /\ previo = Resumen(SinLlamada)
    /\ SinHilos
    /\ SinSegmento

otrasVars == <<cupos, asignaciones, ultimo, previo, hilosVars, segmentoVars, puntajeVars,
               cerrojoVars, webVars, modelosVars>>

\* the call returns before its write block
Falla(op, cedula, mensaje) ==
    /\ ultimoE' = Retorno(op, cedula, "False", mensaje)
    /\ UNCHANGED <<registros_nacionales, dependientes, pcE, argE>>

\* the call goes on to its write block
Sigue(t, op, cedula, calificacion) ==
    /\ pcE' = [pcE EXCEPT ![t] = op]
    /\ argE' = [argE EXCEPT ![t] = [cedula |-> cedula, calificacion |-> calificacion]]
    /\ UNCHANGED <<registros_nacionales, dependientes, ultimoE>>

\* the thread is back in the request loop
Libre(t) ==
    /\ pcE' = [pcE EXCEPT ![t] = "libre"]
    /\ argE' = [argE EXCEPT ![t] = SinArg]

\* insertar_registro(datos), up to the `with self.lock:` of the write
InsertarRegistroVerificar(t, cedula, correo, calificacion) ==
    /\ pcE[t] = "libre"
    /\ Len(registros_nacionales)
           + Cardinality({u \in HilosExcel : pcE[u] = "insertar_registro"}) < MaxFilas
    /\ IF validar_cedula(cedula) # "Cédula válida"
       THEN Falla("insertar_registro", cedula, validar_cedula(cedula))
       ELSE IF existe_registro(cedula)
       THEN Falla("insertar_registro", cedula, "Ya existe un registro con esta cédula")
       ELSE IF validar_email(correo) # "Email válido"
       THEN Falla("insertar_registro", cedula, validar_email(correo))
       ELSE IF validar_calificacion(calificacion) # "Calificación válida"
       THEN Falla("insertar_registro", cedula, validar_calificacion(calificacion))
       ELSE Sigue(t, "insertar_registro", cedula, calificacion)
    /\ UNCHANGED otrasVars

\* insertar_registro saving the workbook as it was at start-up plus the new
\* row, instead of the workbook loaded inside the locked block
InsertarRegistroEscribirDesdeSemilla(t) ==
    /\ pcE[t] = "insertar_registro"
    /\ registros_nacionales' =
           <<registros_nacionales[1],
             [cedula |-> argE[t].cedula, calificacion |-> argE[t].calificacion]>>
    /\ ultimoE' = Retorno("insertar_registro", argE[t].cedula, "True",
                          "Registro insertado exitosamente")
    /\ Libre(t)
    /\ UNCHANGED <<dependientes, otrasVars>>

\* insertar_registro: ws.append(nueva_fila), save, return
InsertarRegistroEscribir(t) ==
    /\ pcE[t] = "insertar_registro"
    /\ registros_nacionales' = Append(registros_nacionales,
           [cedula |-> argE[t].cedula, calificacion |-> argE[t].calificacion])
    /\ ultimoE' = Retorno("insertar_registro", argE[t].cedula, "True",
                          "Registro insertado exitosamente")
    /\ Libre(t)
    /\ UNCHANGED <<dependientes, otrasVars>>

\* actualizar_registro(cedula, datos), up to the `with self.lock:` of the write
ActualizarRegistroVerificar(t, cedula, correo, calificacion) ==
    /\ pcE[t] = "libre"
    /\ IF ~existe_registro(cedula)
       THEN Falla("actualizar_registro", cedula, "Registro no encontrado")
       ELSE IF validar_email(correo) # "Email válido"
       THEN Falla("actualizar_registro", cedula, validar_email(correo))
       ELSE IF calificacion # Ausente
               /\ validar_calificacion(calificacion) # "Calificación válida"
       THEN Falla("actualizar_registro", cedula, validar_calificacion(calificacion))
       ELSE Sigue(t, "actualizar_registro", cedula, calificacion)
    /\ UNCHANGED otrasVars

\* actualizar_registro: the first row of the cedula gets the fields given
ActualizarRegistroEscribir(t) ==
    /\ pcE[t] = "actualizar_registro"
    /\ LET filas == FilasDe(registros_nacionales, argE[t].cedula)
       IN  IF filas = {}
           THEN /\ ultimoE' = Retorno("actualizar_registro", argE[t].cedula, "False",
                                      "Error al actualizar registro")
                /\ UNCHANGED registros_nacionales
           ELSE /\ registros_nacionales' =
                       IF argE[t].calificacion = Ausente
                       THEN registros_nacionales
                       ELSE [registros_nacionales EXCEPT
                                ![PrimeraFila(filas)].calificacion = argE[t].calificacion]
                /\ ultimoE' = Retorno("actualizar_registro", argE[t].cedula, "True",
                                      "Registro actualizado exitosamente")
    /\ Libre(t)
    /\ UNCHANGED <<dependientes, otrasVars>>

\* eliminar_registro(cedula), up to the `with self.lock:` of the write
EliminarRegistroVerificar(t, cedula) ==
    /\ pcE[t] = "libre"
    /\ IF ~existe_registro(cedula)
       THEN Falla("eliminar_registro", cedula, "Registro no encontrado")
       ELSE Sigue(t, "eliminar_registro", cedula, Ausente)
    /\ UNCHANGED otrasVars

\* eliminar_registro: delete the first row of the cedula (the loop breaks after
\* it), then every row of the cedula in the four dependent sheets
EliminarRegistroEscribir(t) ==
    /\ pcE[t] = "eliminar_registro"
    /\ LET filas == FilasDe(registros_nacionales, argE[t].cedula)
       IN  registros_nacionales' =
               IF filas = {} THEN registros_nacionales
               ELSE SinFila(registros_nacionales, PrimeraFila(filas))
    /\ dependientes' = [h \in HojasDependientes |->
                           SelectSeqDistintos(dependientes[h], argE[t].cedula)]
    /\ ultimoE' = Retorno("eliminar_registro", argE[t].cedula, "True",
                          "Registro y dependencias eliminados exitosamente")
    /\ Libre(t)
    /\ UNCHANGED otrasVars

NextExcel ==
    \E t \in HilosExcel :
        \/ \E cedula \in CedulasEntrada, correo \in CorreosEntrada,
              calificacion \in CalificacionesEntrada :
               \/ InsertarRegistroVerificar(t, cedula, correo, calificacion)
               \/ ActualizarRegistroVerificar(t, cedula, correo, calificacion)
        \/ \E cedula \in CedulasEntrada : EliminarRegistroVerificar(t, cedula)
        \/ InsertarRegistroEscribir(t)
        \/ ActualizarRegistroEscribir(t)
        \/ EliminarRegistroEscribir(t)

SpecExcel == InitExcel /\ [][NextExcel]_vars

----------------------------------------------------------------------------
(* SpecCerrojo: request threads call insertar_inscripcion,                  *)
(* insertar_evaluacion, insertar_asignacion and insertar_puntaje.  Each    *)
(* runs existe_registro (a locked read), takes self.lock for its write     *)
(* block and, inside it, calls _obtener_siguiente_id, which takes          *)
(* self.lock again.  self.lock is a threading.Lock: not reentrant.         *)

\* the method that writes each dependent sheet
MetodoDe(hoja) ==
    CASE hoja = "inscripciones" -> "insertar_inscripcion"
      [] hoja = "evaluaciones" -> "insertar_evaluacion"
      [] hoja = "asignaciones" -> "insertar_asignacion"
      [] hoja = "puntajes" -> "insertar_puntaje"

\* carrera_id of the rows of a sheet that has the column; 0 stands for no column
CarrerasDe(hoja) == IF hoja \in {"inscripciones", "asignaciones"} THEN Carreras ELSE {0}

\* the rows crear_excel_completo writes for the seeded applicant
HojasSemilla ==
    [h \in HojasDependientes |->
        <<[id |-> 1, cedula |-> CedulaSemilla,
           carrera_id |-> IF h \in {"inscripciones", "asignaciones"} THEN 101 ELSE 0]>>]

SinDestino == [hoja |-> "", carrera_id |-> 0]

\* a blocking acquire() of a lock that a reentrant lock would grant its holder
PuedeAdquirirReentrante(t) == cerrojo \in {0, t}

\* a blocking acquire() of threading.Lock returns only when nobody holds it
PuedeAdquirir(t) == cerrojo = 0

\* _obtener_siguiente_id: the largest id of the sheet, plus one
siguiente_id(hoja) ==
    LET ids == {hoja[i].id : i \in 1 .. Len(hoja)} \cup {0}
    IN  (CHOOSE m \in ids : \A n \in ids : n <= m) + 1

InitCerrojo ==
    /\ registros_nacionales = <<[cedula |-> CedulaSemilla, calificacion |-> Num(950)]>>
    /\ dependientes = <<>>
    /\ hojas = HojasSemilla
    /\ cerrojo = 0
    /\ pcE = [t \in HilosExcel |-> "libre"]
    /\ argE = [t \in HilosExcel |-> SinArg]
    /\ destinoE = [t \in HilosExcel |-> SinDestino]
    /\ ultimoE = SinLlamadaE
    /\ SinWeb
    /\ SinModelos
    /\ SinPuntajes
    /\ cupos = DictVacio
    /\ asignaciones = <<>>
    /\ ultimo = SinLlamada
    /\ previo = Resumen(SinLlamada)
    /\ SinHilos
    /\ SinSegmento

sinCerrojoVars == <<cupos, asignaciones, ultimo, previo, hilosVars, segmentoVars, puntajeVars,
                    webVars, modelosVars>>

\* insertar_<hoja>(datos) up to its `with self.lock:`; existe_registro reads the
\* workbook under the lock unless CedulaValidator rejects the cedula first
InsertarDependienteVerificar(t, hoja, cedula, carrera_id) ==
    /\ pcE[t] = "libre"
    /\ Len(hojas[hoja]) < MaxFilas
    /\ validar_cedula(cedula) = "Cédula válida" => PuedeAdquirir(t)
    /\ IF ~existe_registro(cedula)
       THEN /\ ultimoE' = Retorno(MetodoDe(hoja), cedula, "False",
                                  "No existe registro nacional para esta cédula")
            /\ UNCHANGED <<pcE, argE, destinoE>>
       ELSE /\ pcE' = [pcE EXCEPT ![t] = "with self.lock"]
            /\ argE' = [argE EXCEPT ![t] = [cedula |-> cedula, calificacion |-> Ausente]]
            /\ destinoE' = [destinoE EXCEPT ![t] = [hoja |-> hoja, carrera_id |-> carrera_id]]
            /\ UNCHANGED ultimoE
    /\ UNCHANGED <<registros_nacionales, dependientes, hojas, cerrojo, sinCerrojoVars>>

\* a `with self.lock:` the thread stands before returns from acquire(): the one
\* of insertar_<hoja>, after which the thread calls _obtener_siguiente_id, or the
\* one inside _obtener_siguiente_id, after which the id is computed, the row
\* appended, the workbook saved and the lock released
Adquirir(t) ==
    /\ pcE[t] \in {"with self.lock", "_obtener_siguiente_id"}
    /\ PuedeAdquirir(t)
    /\ IF pcE[t] = "with self.lock"
       THEN /\ cerrojo' = t
            /\ pcE' = [pcE EXCEPT ![t] = "_obtener_siguiente_id"]
            /\ UNCHANGED <<argE, destinoE, hojas, ultimoE>>
       ELSE /\ hojas' = [hojas EXCEPT ![destinoE[t].hoja] =
                            Append(@, [id |-> siguiente_id(@),
                                       cedula |-> argE[t].cedula,
                                       carrera_id |-> destinoE[t].carrera_id])]
            /\ cerrojo' = 0
            /\ pcE' = [pcE EXCEPT ![t] = "libre"]
            /\ argE' = [argE EXCEPT ![t] = SinArg]
            /\ destinoE' = [destinoE EXCEPT ![t] = SinDestino]
            /\ ultimoE' = Retorno(MetodoDe(destinoE[t].hoja), argE[t].cedula, "True",
                                  "creada exitosamente")
    /\ UNCHANGED <<registros_nacionales, dependientes, sinCerrojoVars>>

NextCerrojo ==
    \E t \in HilosExcel :
        \/ \E hoja \in HojasDependientes, cedula \in CedulasEntrada :
               \E carrera_id \in CarrerasDe(hoja) :
                   InsertarDependienteVerificar(t, hoja, cedula, carrera_id)
        \/ Adquirir(t)

SpecCerrojo == InitCerrojo /\ [][NextCerrojo]_vars

----------------------------------------------------------------------------
(* SpecWeb: the routes of src/app/app.py that log in and out and that       *)
(* create, edit and delete applicant records, one request at a time, each  *)
(* ExcelManager call running to completion.                                 *)

NumSesiones == 2

Navegadores == 1 .. NumSesiones

CedulaAdmin == <<0, 0, 0, 0, 0, 0, 0, 0, 0, 1>>
CedulasLogin == {CedulaAdmin, CedulaSemilla, CedulaNueva, CedulaCorta}

\* sheet administradores as crear_excel_completo writes it
AdministradoresSemilla == <<[cedula |-> CedulaAdmin, rol |-> "ADMIN"]>>

\* the form field calificacion is always sent on, as the string typed
CalificacionesWeb == {Texto, NaN, Num(0 - 1), Num(950), Num(1001)}

SinSesion == [rol |-> "None", cedula |-> <<>>]

es_administrador(cedula) ==
    \E i \in 1 .. Len(AdministradoresSemilla) :
        /\ AdministradoresSemilla[i].cedula = cedula
        /\ AdministradoresSemilla[i].rol = "ADMIN"

\* a guard that only asks for a logged-in session ('cedula' in session)
rol_es_admin_o_estudiante(s) == sesiones[s].rol # "None"

\* session.get('rol') != 'ADMIN' is False
rol_es_admin(s) == sesiones[s].rol = "ADMIN"

\* insertar_registro(datos) run to completion: its result and the sheet it leaves
insertar_registro(cedula, correo, calificacion) ==
    LET falla(mensaje) == [ret |-> "False", mensaje |-> mensaje,
                           filas |-> registros_nacionales]
    IN  IF validar_cedula(cedula) # "Cédula válida" THEN falla(validar_cedula(cedula))
        ELSE IF existe_registro(cedula)
        THEN falla("Ya existe un registro con esta cédula")
        ELSE IF validar_email(correo) # "Email válido" THEN falla(validar_email(correo))
        ELSE IF validar_calificacion(calificacion) # "Calificación válida"
        THEN falla(validar_calificacion(calificacion))
        ELSE [ret |-> "True", mensaje |-> "Registro insertado exitosamente",
              filas |-> Append(registros_nacionales,
                               [cedula |-> cedula, calificacion |-> calificacion])]

\* actualizar_registro(cedula, datos) run to completion
actualizar_registro(cedula, correo, calificacion) ==
    LET falla(mensaje) == [ret |-> "False", mensaje |-> mensaje,
                           filas |-> registros_nacionales]
        filas == FilasDe(registros_nacionales, cedula)
    IN  IF ~existe_registro(cedula) THEN falla("Registro no encontrado")
        ELSE IF validar_email(correo) # "Email válido" THEN falla(validar_email(correo))
        ELSE IF calificacion # Ausente
                /\ validar_calificacion(calificacion) # "Calificación válida"
        THEN falla(validar_calificacion(calificacion))
        ELSE [ret |-> "True", mensaje |-> "Registro actualizado exitosamente",
              filas |-> IF calificacion = Ausente THEN registros_nacionales
                        ELSE [registros_nacionales EXCEPT
                                 ![PrimeraFila(filas)].calificacion = calificacion]]

\* eliminar_registro(cedula) run to completion; on success the dependent sheets
\* lose the rows of the cedula as well
eliminar_registro(cedula) ==
    IF ~existe_registro(cedula)
    THEN [ret |-> "False", mensaje |-> "Registro no encontrado",
          filas |-> registros_nacionales]
    ELSE [ret |-> "True", mensaje |-> "Registro y dependencias eliminados exitosamente",
          filas |-> SinFila(registros_nacionales,
                            PrimeraFila(FilasDe(registros_nacionales, cedula)))]

Peticion(ruta, s, llamada, cedula) ==
    [ruta |-> ruta, rol |-> sesiones[s].rol, llamada |-> llamada, cedula |-> cedula,
     antes |-> registros_nacionales]

InitWeb ==
    /\ registros_nacionales = <<[cedula |-> CedulaSemilla, calificacion |-> Num(950)]>>
    /\ dependientes = [h \in HojasDependientes |-> <<CedulaSemilla>>]
    /\ sesiones = [s \in Navegadores |-> SinSesion]
    /\ ultimaW = SinPeticion
    /\ pcE = <<>>
    /\ argE = <<>>
    /\ ultimoE = SinLlamadaE
    /\ SinCerrojo
    /\ SinModelos
    /\ SinPuntajes
    /\ cupos = DictVacio
    /\ asignaciones = <<>>
    /\ ultimo = SinLlamada
    /\ previo = Resumen(SinLlamada)
    /\ SinHilos
    /\ SinSegmento

sinWebVars == <<cupos, asignaciones, ultimo, previo, hilosVars, segmentoVars, puntajeVars,
                cerrojoVars, pcE, argE, ultimoE, modelosVars>>

\* POST /login
Login(s, cedula) ==
    /\ ultimaW' = Peticion("login", s, "None", cedula)
    /\ sesiones' =
           IF Len(cedula) # 10 \/ \E i \in 1 .. Len(cedula) : cedula[i] \notin 0 .. 9
           THEN sesiones
           ELSE IF es_administrador(cedula)
           THEN [sesiones EXCEPT ![s] = [rol |-> "ADMIN", cedula |-> cedula]]
           ELSE IF existe_registro(cedula)
           THEN [sesiones EXCEPT ![s] = [rol |-> "ESTUDIANTE", cedula |-> cedula]]
           ELSE sesiones
    /\ UNCHANGED <<registros_nacionales, dependientes, sinWebVars>>

\* GET /logout
Logout(s) ==
    /\ ultimaW' = Peticion("logout", s, "None", <<>>)
    /\ sesiones' = [sesiones EXCEPT ![s] = SinSesion]
    /\ UNCHANGED <<registros_nacionales, dependientes, sinWebVars>>

\* GET or POST /opcion3_crear
Opcion3Crear(s, metodo, cedula, correo, calificacion) ==
    /\ Len(registros_nacionales) < MaxFilas
    /\ IF rol_es_admin(s) /\ metodo = "POST"
       THEN /\ registros_nacionales' = insertar_registro(cedula, correo, calificacion).filas
            /\ ultimaW' = Peticion("opcion3_crear", s, "insertar_registro", cedula)
       ELSE /\ UNCHANGED registros_nacionales
            /\ ultimaW' = Peticion("opcion3_crear", s, "None", cedula)
    /\ UNCHANGED <<sesiones, dependientes, sinWebVars>>

\* GET or POST /opcion3_editar/<cedula>
Opcion3Editar(s, metodo, cedula, correo, calificacion) ==
    /\ IF rol_es_admin(s) /\ existe_registro(cedula) /\ metodo = "POST"
       THEN /\ registros_nacionales' = actualizar_registro(cedula, correo, calificacion).filas
            /\ ultimaW' = Peticion("opcion3_editar", s, "actualizar_registro", cedula)
       ELSE /\ UNCHANGED registros_nacionales
            /\ ultimaW' = Peticion("opcion3_editar", s, "None", cedula)
    /\ UNCHANGED <<sesiones, dependientes, sinWebVars>>

\* GET /opcion3_eliminar/<cedula>
Opcion3Eliminar(s, cedula) ==
    /\ IF rol_es_admin(s)
       THEN /\ registros_nacionales' = eliminar_registro(cedula).filas
            /\ dependientes' =
                   IF eliminar_registro(cedula).ret = "True"
                   THEN [h \in HojasDependientes |->
                            SelectSeqDistintos(dependientes[h], cedula)]
                   ELSE dependientes
            /\ ultimaW' = Peticion("opcion3_eliminar", s, "eliminar_registro", cedula)
       ELSE /\ UNCHANGED <<registros_nacionales, dependientes>>
            /\ ultimaW' = Peticion("opcion3_eliminar", s, "None", cedula)
    /\ UNCHANGED <<sesiones, sinWebVars>>

NextWeb ==
    \E s \in Navegadores :
        \/ \E cedula \in CedulasLogin : Login(s, cedula)
        \/ Logout(s)
        \/ \E metodo \in {"GET", "POST"}, cedula \in CedulasEntrada,
              correo \in CorreosEntrada, calificacion \in CalificacionesWeb :
               \/ Opcion3Crear(s, metodo, cedula, correo, calificacion)
               \/ Opcion3Editar(s, metodo, cedula, correo, calificacion)
        \/ \E cedula \in CedulasEntrada : Opcion3Eliminar(s, cedula)

SpecWeb == InitWeb /\ [][NextWeb]_vars

----------------------------------------------------------------------------
(* SpecEvaluacion: one Evaluacion with its CalculadoraPuntaje and its       *)
(* ValidadorNotas. Notes and scores are integers in hundredths; an unset    *)
(* attribute is Ninguna, a set one Num(v).                                  *)

TIPOS_CALCULO == {"ESTANDAR", "MERITO", "INCLUSION"}

\* nota_examen, nota_entrevista and calificacion_colegio handed to
\* registrar_notas: in range, and one above each range
NotasExamenEntrada == {80000, 50000, 100001}
NotasEntrevistaEntrada == {8500, 6000, 10001}
CalificacionesColegioEntrada == {900, 980, 1001}

\* the keyword arguments handed to registrar_notas
ExtrasEntrada ==
    {DictVacio,
     ("cuadro_honor" :> TRUE),
     ("porcentaje_discapacidad" :> 40) @@ ("zona_rural" :> TRUE),
     ("pueblo_originario" :> TRUE)}

\* round(60% examen + 25% colegio*10 + 15% entrevista, 2), in hundredths
calcular_puntaje_estandar(nota_examen, nota_entrevista, calificacion_colegio) ==
    Redondear2(nota_examen * 60 + calificacion_colegio * 10 * 25 + nota_entrevista * 15)

calcular_puntaje_con_merito(nota_examen, nota_entrevista, calificacion_colegio, cuadro_honor) ==
    LET puntaje_base == nota_examen * 40 + calificacion_colegio * 10 * 50
                        + nota_entrevista * 10
        bono_cuadro_honor == IF cuadro_honor THEN 50 ELSE 0
        bono_excelencia == IF calificacion_colegio >= 950 THEN 30 ELSE 0
    IN  Redondear2(puntaje_base + (bono_cuadro_honor + bono_excelencia) * 10000)

calcular_puntaje_inclusion(nota_examen, nota_entrevista, calificacion_colegio, porcentaje_discapacidad, pueblo_originario, zona_rural) ==
    LET puntaje_base == nota_examen * 50 + calificacion_colegio * 10 * 20
                        + nota_entrevista * 10
        bono_discapacidad == porcentaje_discapacidad * 2
        bono_etnico == IF pueblo_originario THEN 100 ELSE 0
        bono_zona_rural == IF zona_rural THEN 50 ELSE 0
    IN  Redondear2(puntaje_base
                   + (bono_discapacidad + bono_etnico + bono_zona_rural) * 10000)

\* ValidadorNotas.validar_todas_notas: TRUE when none of the three checks raises
validar_todas_notas(nota_examen, nota_entrevista, calificacion_colegio) ==
    /\ 0 <= nota_examen /\ nota_examen <= 100000
    /\ 0 <= nota_entrevista /\ nota_entrevista <= 10000
    /\ 0 <= calificacion_colegio /\ calificacion_colegio <= 1000

\* the values calcular_puntaje_total can store for the attributes of e: the
\* calculator chosen by e.tipo_calculo applied to the stored notes and extras
PuntajeSegunTipo(e) ==
    IF e.tipo_calculo = "ESTANDAR"
    THEN calcular_puntaje_estandar(e.nota_examen.valor, e.nota_entrevista.valor,
                                   e.calificacion_colegio.valor)
    ELSE IF e.tipo_calculo = "MERITO"
    THEN calcular_puntaje_con_merito(e.nota_examen.valor, e.nota_entrevista.valor,
                                     e.calificacion_colegio.valor,
                                     Get(e.extras, "cuadro_honor", FALSE))
    ELSE calcular_puntaje_inclusion(e.nota_examen.valor, e.nota_entrevista.valor,
                                    e.calificacion_colegio.valor,
                                    Get(e.extras, "porcentaje_discapacidad", 0),
                                    Get(e.extras, "pueblo_originario", FALSE),
                                    Get(e.extras, "zona_rural", FALSE))

sinEvaluacionVars == <<cupos, asignaciones, ultimo, previo, hilosVars, segmentoVars,
                       puntajeVars, excelVars, cerrojoVars, webVars, ultimaPAA, oferta>>

\* Evaluacion(id_inscripcion, tipo_evaluacion, tipo_calculo, ...) with a valid
\* tipo_evaluacion and each valid tipo_calculo
InitEvaluacion ==
    /\ \E tipo_calculo \in TIPOS_CALCULO :
           evaluacion = [tipo_calculo |-> tipo_calculo, estado |-> "PROGRAMADA",
                         nota_examen |-> Ninguna, nota_entrevista |-> Ninguna,
                         calificacion_colegio |-> Ninguna, puntaje_total |-> Ninguna,
                         extras |-> DictVacio]
    /\ cupos = DictVacio
    /\ asignaciones = <<>>
    /\ ultimo = SinLlamada
    /\ previo = Resumen(SinLlamada)
    /\ SinHilos
    /\ SinSegmento
    /\ SinPuntajes
    /\ SinExcel
    /\ SinCerrojo
    /\ SinWeb
    /\ SinPolitica
    /\ SinOferta

\* registrar_notas: validates, then stores the three notes and the extras;
\* puntaje_total and estado are not assigned
RegistrarNotas(nota_examen, nota_entrevista, calificacion_colegio, extras) ==
    /\ IF validar_todas_notas(nota_examen, nota_entrevista, calificacion_colegio)
       THEN evaluacion' = [evaluacion EXCEPT !.nota_examen = Num(nota_examen),
                                             !.nota_entrevista = Num(nota_entrevista),
                                             !.calificacion_colegio = Num(calificacion_colegio),
                                             !.extras = extras]
       ELSE UNCHANGED evaluacion
    /\ UNCHANGED sinEvaluacionVars

\* calcular_puntaje_total: raises before any note is registered, else stores
\* the score of the object's tipo_calculo and completes the evaluation
CalcularPuntajeTotal ==
    /\ IF evaluacion.nota_examen = Ninguna
       THEN UNCHANGED evaluacion
       ELSE \E puntaje \in PuntajeSegunTipo(evaluacion) :
                evaluacion' = [evaluacion EXCEPT !.puntaje_total = Num(puntaje),
                                                 !.estado = "COMPLETADA"]
    /\ UNCHANGED sinEvaluacionVars

NextEvaluacion ==
    \/ \E nota_examen \in NotasExamenEntrada, nota_entrevista \in NotasEntrevistaEntrada,
          calificacion_colegio \in CalificacionesColegioEntrada, extras \in ExtrasEntrada :
           RegistrarNotas(nota_examen, nota_entrevista, calificacion_colegio, extras)
    \/ CalcularPuntajeTotal

SpecEvaluacion == InitEvaluacion /\ [][NextEvaluacion]_vars

----------------------------------------------------------------------------
(* SpecInsertar: the request threads call insertar_registro concurrently,   *)
(* each call with a valid cedula that is neither in the workbook nor the    *)
(* argument of a call under way, and with a correo and a calificacion the   *)
(* validators accept.                                                      *)

CedulasNuevas ==
    {CedulaNueva, <<1, 7, 1, 2, 3, 4, 5, 6, 7, 8>>, <<2, 4, 0, 0, 0, 0, 0, 0, 0, 1>>}

CalificacionesValidas == {Num(0), Num(950), Num(1000)}

\* some call under way was made with this cedula
EnCurso(cedula) ==
    \E u \in HilosExcel : pcE[u] = "insertar_registro" /\ argE[u].cedula = cedula

InsertarRegistroNuevo(t, cedula, calificacion) ==
    /\ ~existe_registro(cedula)
    /\ ~EnCurso(cedula)
    /\ InsertarRegistroVerificar(t, cedula, "jean.flores@uleam.edu.ec", calificacion)

NextInsertar ==
    \E t \in HilosExcel :
        \/ \E cedula \in CedulasNuevas, calificacion \in CalificacionesValidas :
               InsertarRegistroNuevo(t, cedula, calificacion)
        \/ InsertarRegistroEscribir(t)

SpecInsertar == InitExcel /\ [][NextInsertar]_vars

----------------------------------------------------------------------------
(* SpecConservacion: programs configured once, then assignments created    *)
(* and mutated only through asignar and cancelar, each call running to     *)
(* completion.  cuposIniciales keeps the configured capacities.            *)

InitConservacion ==
    /\ cupos \in RegistrosConfigurados
    /\ cuposIniciales = cupos
    /\ asignaciones = <<>>
    /\ ultimo = SinLlamada
    /\ previo = Resumen(SinLlamada)
    /\ pc = [h \in {} |-> "fin"]
    /\ leido = [h \in {} |-> 0]
    /\ retorno = [h \in {} |-> "None"]
    /\ SinSegmento
    /\ SinPuntajes
    /\ SinExcel
    /\ SinCerrojo
    /\ SinWeb
    /\ SinModelos

NextConservacion ==
    \/ \E c \in Carreras, p \in PuntajesAsignacion : CrearAsignacion(c, p)
    \/ \E i \in 1 .. Len(asignaciones) : Asignar(i)
    \/ \E i \in 1 .. Len(asignaciones) : Cancelar(i)

SpecConservacion == InitConservacion /\ [][NextConservacion]_vars

----------------------------------------------------------------------------
(* SpecPolitica: one PoliticaAccionAfirmativa with its evaluator and its    *)
(* CalculadorSegmento; marcadores is its _marcadores dict and resultado its *)
(* segmento_asignado and prioridad_segmento.                               *)

Quintiles == 0 .. 5
TiposInstitucion == {"FISCAL", "fiscal", "PARTICULAR"}
Zonas == {"RURAL", "rural", "URBANA"}
Porcentajes == {0, 29, 30, 75}
Autoidentificaciones == {"INDIGENA", "montubio", "MESTIZO"}
Distinciones == {"None", "ABANDERADO PABELLON NACIONAL", "MEJOR DEPORTISTA"}

\* str.upper() on the strings above
upper(s) ==
    IF s = "fiscal" THEN "FISCAL"
    ELSE IF s = "rural" THEN "RURAL"
    ELSE IF s = "montubio" THEN "MONTUBIO"
    ELSE IF s = "cuotas" THEN "CUOTAS"
    ELSE s

evaluar_condicion_socioeconomica(quintil) ==
    [tiene_condicion |-> quintil <= 2, es_vulnerable |-> quintil = 1]

evaluar_ruralidad(tipo_institucion, zona) ==
    upper(tipo_institucion) = "FISCAL" /\ upper(zona) = "RURAL"

evaluar_discapacidad(porcentaje, tiene_carnet) ==
    tiene_carnet /\ porcentaje >= 30

evaluar_pueblos_nacionalidades(autoidentificacion) ==
    upper(autoidentificacion) \in {"INDIGENA", "AFROECUATORIANO", "MONTUBIO"}

evaluar_merito_academico(cuadro_honor, distincion) ==
    IF cuadro_honor # "SI" THEN FALSE
    ELSE /\ distincion # "None"
         /\ distincion \in {"ABANDERADO PABELLON NACIONAL", "PORTA ESTANDARTE PLANTEL",
                            "1er. ESCOLTA PABELLON NACIONAL"}

sinPoliticaVars == <<cupos, asignaciones, ultimo, previo, hilosVars, puntajeVars,
                     excelVars, cerrojoVars, webVars, evaluacion, oferta>>

\* PoliticaAccionAfirmativa(id_postulante, identificacion, evaluador, calculador)
InitPolitica ==
    /\ marcadores = [k \in ClavesMarcadores \cup {"poblacion_general"} |->
                        IF k = "poblacion_general" THEN "SI" ELSE "NO"]
    /\ resultado = [segmento |-> "None", prioridad |-> 99]
    /\ ultimaPAA = SinLlamadaPAA
    /\ cupos = DictVacio
    /\ asignaciones = <<>>
    /\ ultimo = SinLlamada
    /\ previo = Resumen(SinLlamada)
    /\ SinHilos
    /\ SinPuntajes
    /\ SinExcel
    /\ SinCerrojo
    /\ SinWeb
    /\ SinEvaluacion
    /\ SinOferta

\* the call op returned: resultado is what it was before unless op assigns it
LlamadaPAA(op) ==
    /\ ultimaPAA' = [op |-> op, prioridadAntes |-> resultado.prioridad]
    /\ UNCHANGED sinPoliticaVars

\* aplicar_condicion_socioeconomica marking the vulnerability without the
\* condition
AplicarCondicionSocioeconomicaSoloVulnerable(quintil) ==
    LET e == evaluar_condicion_socioeconomica(quintil)
    IN  /\ marcadores' =
               IF e.tiene_condicion /\ e.es_vulnerable
               THEN [marcadores EXCEPT !["vulnerabilidad_socioeconomica"] = "SI"]
               ELSE IF e.tiene_condicion
               THEN [marcadores EXCEPT !["condicion_socioeconomica"] = "SI"]
               ELSE marcadores
        /\ UNCHANGED resultado
        /\ LlamadaPAA("aplicar_condicion_socioeconomica")

AplicarCondicionSocioeconomica(quintil) ==
    LET e == evaluar_condicion_socioeconomica(quintil)
    IN  /\ marcadores' =
               IF e.tiene_condicion /\ e.es_vulnerable
               THEN [marcadores EXCEPT !["condicion_socioeconomica"] = "SI",
                                       !["vulnerabilidad_socioeconomica"] = "SI"]
               ELSE IF e.tiene_condicion
               THEN [marcadores EXCEPT !["condicion_socioeconomica"] = "SI"]
               ELSE marcadores
        /\ UNCHANGED resultado
        /\ LlamadaPAA("aplicar_condicion_socioeconomica")

\* aplicar_ruralidad storing 'NO' when the evaluation fails
AplicarRuralidadReasigna(tipo_institucion, zona) ==
    /\ marcadores' = [marcadores EXCEPT !["ruralidad"] =
                         IF evaluar_ruralidad(tipo_institucion, zona) THEN "SI" ELSE "NO"]
    /\ UNCHANGED resultado
    /\ LlamadaPAA("aplicar_ruralidad")

AplicarRuralidad(tipo_institucion, zona) ==
    /\ marcadores' = IF evaluar_ruralidad(tipo_institucion, zona)
                     THEN [marcadores EXCEPT !["ruralidad"] = "SI"]
                     ELSE marcadores
    /\ UNCHANGED resultado
    /\ LlamadaPAA("aplicar_ruralidad")

AplicarDiscapacidad(porcentaje, tiene_carnet) ==
    /\ marcadores' = IF evaluar_discapacidad(porcentaje, tiene_carnet)
                     THEN [marcadores EXCEPT !["discapacidad"] = "SI"]
                     ELSE marcadores
    /\ UNCHANGED resultado
    /\ LlamadaPAA("aplicar_discapacidad")

AplicarPueblosNacionalidades(autoidentificacion) ==
    /\ marcadores' = IF evaluar_pueblos_nacionalidades(autoidentificacion)
                     THEN [marcadores EXCEPT !["pueblos_nacionalidades"] = "SI"]
                     ELSE marcadores
    /\ UNCHANGED resultado
    /\ LlamadaPAA("aplicar_pueblos_nacionalidades")

AplicarMeritoAcademico(cuadro_honor, distincion) ==
    /\ marcadores' = IF evaluar_merito_academico(cuadro_honor, distincion)
                     THEN [marcadores EXCEPT !["merito_academico"] = "SI"]
                     ELSE marcadores
    /\ UNCHANGED resultado
    /\ LlamadaPAA("aplicar_merito_academico")

AplicarBachillerUltimoAnio(es_bachiller, pertenece_pueblos) ==
    /\ marcadores' =
           IF es_bachiller /\ pertenece_pueblos
           THEN [marcadores EXCEPT !["bachiller_periodo_academico"] = "SI",
                                   !["bachiller_pueblos_nacionalidad"] = "SI"]
           ELSE IF es_bachiller
           THEN [marcadores EXCEPT !["bachiller_periodo_academico"] = "SI"]
           ELSE marcadores
    /\ UNCHANGED resultado
    /\ LlamadaPAA("aplicar_bachiller_ultimo_anio")

CalcularSegmento ==
    /\ resultado' = calcular(marcadores)
    /\ UNCHANGED marcadores
    /\ LlamadaPAA("calcular_segmento")

NextPolitica ==
    \/ \E quintil \in Quintiles : AplicarCondicionSocioeconomica(quintil)
    \/ \E tipo_institucion \in TiposInstitucion, zona \in Zonas :
           AplicarRuralidad(tipo_institucion, zona)
    \/ \E porcentaje \in Porcentajes, tiene_carnet \in BOOLEAN :
           AplicarDiscapacidad(porcentaje, tiene_carnet)
    \/ \E autoidentificacion \in Autoidentificaciones :
           AplicarPueblosNacionalidades(autoidentificacion)
    \/ \E cuadro_honor \in {"SI", "NO"}, distincion \in Distinciones :
           AplicarMeritoAcademico(cuadro_honor, distincion)
    \/ \E es_bachiller \in BOOLEAN, pertenece_pueblos \in BOOLEAN :
           AplicarBachillerUltimoAnio(es_bachiller, pertenece_pueblos)
    \/ CalcularSegmento

SpecPolitica == InitPolitica /\ [][NextPolitica]_vars

----------------------------------------------------------------------------
(* SpecMeritos: PuntajePostulacion objects are created and their            *)
(* puntaje_meritos property is assigned, one call at a time.               *)

\* values assigned to puntaje_meritos: in range, both limits, and one beyond
\* each limit
ValoresMeritos == {0 - 1, 0, 20000, 100000, 100001}

\* the history of an assignment p.puntaje_meritos = valor to object i
AsignacionDeMeritos(i, valor) ==
    [op |-> "puntaje_meritos", objeto |-> i, valor |-> valor, antes |-> puntajes[i],
     error |-> validar_puntaje(valor, "meritos"),
     contadorAntes |-> contadorPuntajes, creadosAntes |-> Len(puntajes)]

\* the setter storing the value before validating it
AsignarPuntajeMeritosAsignaPrimero(i, valor) ==
    /\ ultimoP' = AsignacionDeMeritos(i, valor)
    /\ IF validar_puntaje(valor, "meritos") # "None"
       THEN puntajes' = [puntajes EXCEPT ![i].puntaje_meritos = valor]
       ELSE \E f \in calcular_puntaje_total(puntajes[i].nota_grado,
                                            puntajes[i].puntaje_evaluacion, valor) :
                puntajes' = [puntajes EXCEPT ![i].puntaje_meritos = valor,
                                             ![i].puntaje_final = f]
    /\ UNCHANGED <<contadorPuntajes, cupos, asignaciones, ultimo, previo, hilosVars,
                   segmentoVars, excelVars, cerrojoVars, webVars, modelosVars>>

\* puntaje_meritos setter: validar_puntaje raises before anything is stored,
\* else the value is stored and puntaje_final recomputed
AsignarPuntajeMeritos(i, valor) ==
    /\ ultimoP' = AsignacionDeMeritos(i, valor)
    /\ IF validar_puntaje(valor, "meritos") # "None"
       THEN UNCHANGED puntajes
       ELSE \E f \in calcular_puntaje_total(puntajes[i].nota_grado,
                                            puntajes[i].puntaje_evaluacion, valor) :
                puntajes' = [puntajes EXCEPT ![i].puntaje_meritos = valor,
                                             ![i].puntaje_final = f]
    /\ UNCHANGED <<contadorPuntajes, cupos, asignaciones, ultimo, previo, hilosVars,
                   segmentoVars, excelVars, cerrojoVars, webVars, modelosVars>>

NextMeritos ==
    \/ \E e \in {1, 85000}, m \in PuntajesMeritosEntrada : CrearPuntaje(950, e, m)
    \/ \E i \in 1 .. Len(puntajes), valor \in ValoresMeritos :
           AsignarPuntajeMeritos(i, valor)

SpecMeritos == InitPuntaje /\ [][NextMeritos]_vars

----------------------------------------------------------------------------
(* SpecOferta: one OfertaCarrera created with cupos_total seats, then       *)
(* reservarCupo and liberarCupo called on it.                              *)

MaxCuposTotal == 3

\* the segment names handed to reservarCupo and liberarCupo: the seven keys of
\* cupos_asignados, one of them in lower case, and a name that is no key
SegmentosEntrada ==
    {ORDEN_SEGMENTOS[i] : i \in 1 .. Len(ORDEN_SEGMENTOS)} \cup {"cuotas", "BECAS"}

\* int(n * p / 100) for an integer n: the product truncated towards zero
PorcentajeEntero(n, p) ==
    IF n >= 0 THEN (n * p) \div 100 ELSE 0 - (((0 - n) * p) \div 100)

\* __init__ and _calcular_distribucion_cupos
NuevaOferta(cupos_total) ==
    LET cuotas == PorcentajeEntero(cupos_total, 5)
        cupos_pc == IF cuotas > 1 THEN cuotas ELSE 1
        cupos_restantes == cupos_total - cupos_pc
        cupos_vulnerabilidad == PorcentajeEntero(cupos_restantes, 20)
        cupos_merito == PorcentajeEntero(cupos_restantes, 30)
    IN  [cupos_total |-> cupos_total,
         cupos_pc |-> cupos_pc,
         cupos_vulnerabilidad |-> cupos_vulnerabilidad,
         cupos_merito |-> cupos_merito,
         cupos_general |-> cupos_restantes - cupos_vulnerabilidad - cupos_merito,
         cupos_asignados |-> [seg \in {ORDEN_SEGMENTOS[i] : i \in 1 .. Len(ORDEN_SEGMENTOS)}
                                  |-> 0]]

RECURSIVE SumaAsignados(_, _)
\* sum(cupos_asignados.values()) over the first n segments
SumaAsignados(asignados, n) ==
    IF n = 0 THEN 0
    ELSE asignados[ORDEN_SEGMENTOS[n]] + SumaAsignados(asignados, n - 1)

\* calcularCuposDisponibles(segmento); segmento "None" is the call without one
calcularCuposDisponibles(o, segmento) ==
    IF segmento = "None"
    THEN o.cupos_total - SumaAsignados(o.cupos_asignados, Len(ORDEN_SEGMENTOS))
    ELSE LET seg == upper(segmento)
             limite == IF seg = "CUOTAS" THEN o.cupos_pc
                       ELSE IF seg = "VULNERABILIDAD" THEN o.cupos_vulnerabilidad
                       ELSE IF seg = "MERITO_ACADEMICO" THEN o.cupos_merito
                       ELSE o.cupos_general
         IN  IF seg \notin DOMAIN o.cupos_asignados THEN 0
             ELSE IF limite - o.cupos_asignados[seg] > 0
             THEN limite - o.cupos_asignados[seg]
             ELSE 0

sinOfertaVars == <<cupos, asignaciones, ultimo, previo, hilosVars, segmentoVars,
                   puntajeVars, excelVars, cerrojoVars, webVars, evaluacion, ultimaPAA>>

InitOferta ==
    /\ \E cupos_total \in 0 .. MaxCuposTotal : oferta = NuevaOferta(cupos_total)
    /\ cupos = DictVacio
    /\ asignaciones = <<>>
    /\ ultimo = SinLlamada
    /\ previo = Resumen(SinLlamada)
    /\ SinHilos
    /\ SinSegmento
    /\ SinPuntajes
    /\ SinExcel
    /\ SinCerrojo
    /\ SinWeb
    /\ SinEvaluacion
    /\ SinPolitica

ReservarCupo(segmento) ==
    /\ LET seg == upper(segmento)
       IN  IF seg \notin DOMAIN oferta.cupos_asignados
           THEN UNCHANGED oferta
           ELSE IF calcularCuposDisponibles(oferta, seg) <= 0
           THEN UNCHANGED oferta
           ELSE oferta' = [oferta EXCEPT !.cupos_asignados[seg] = @ + 1]
    /\ UNCHANGED sinOfertaVars

LiberarCupo(segmento) ==
    /\ LET seg == upper(segmento)
       IN  IF seg \notin DOMAIN oferta.cupos_asignados
           THEN UNCHANGED oferta
           ELSE IF oferta.cupos_asignados[seg] > 0
           THEN oferta' = [oferta EXCEPT !.cupos_asignados[seg] = @ - 1]
           ELSE UNCHANGED oferta
    /\ UNCHANGED sinOfertaVars

NextOferta ==
    \/ \E segmento \in SegmentosEntrada : ReservarCupo(segmento)
    \/ \E segmento \in SegmentosEntrada : LiberarCupo(segmento)

SpecOferta == InitOferta /\ [][NextOferta]_vars

----------------------------------------------------------------------------
(* Properties *)

\* the registry d2 is d1 with the count of carrera_id changed by delta and
\* nothing else changed
SoloCambia(d1, d2, carrera_id, delta) ==
    /\ DOMAIN d2 = DOMAIN d1
    /\ carrera_id \in DOMAIN d1
    /\ d2[carrera_id] = d1[carrera_id] + delta
    /\ \A q \in DOMAIN d1 \ {carrera_id} : d2[q] = d1[q]

Minimo == PUNTAJE_MINIMO * 100

HilosConRetorno(r) == {h \in DOMAIN retorno : retorno[h] = r}

\* C1 (SpecCarrera): once the N concurrent reducir_cupo calls on a program
\* configured with K < N seats have all returned, exactly K returned True, the
\* other N - K returned False and the remaining count is 0.
C1_CarreraExactamenteK ==
    (\A h \in DOMAIN pc : pc[h] = "fin") =>
        /\ Cardinality(HilosConRetorno("True")) = cuposIniciales
        /\ Cardinality(HilosConRetorno("False")) = Cardinality(DOMAIN pc) - cuposIniciales
        /\ Get(cupos, CarreraDisputada, 0) = 0

\* C2 (SpecCupos): reducir_cupo(p) returns True exactly when the count of p
\* was > 0 at the call, and then the registry differs only by p's count being 1
\* lower; when it returns False (count <= 0, or p never configured) the whole
\* registry is as before.
C2_ReducirCupo ==
    ultimo.op = "reducir_cupo" =>
        /\ (ultimo.ret = "True") <=> (Get(ultimo.antes, ultimo.carrera, 0) > 0)
        /\ ultimo.ret = "True" => SoloCambia(ultimo.antes, cupos, ultimo.carrera, 0 - 1)
        /\ ultimo.ret = "False" => cupos = ultimo.antes

\* a successful reservation was made while another program was configured too
C2_Testigo ==
    /\ ultimo.op = "reducir_cupo"
    /\ ultimo.ret = "True"
    /\ \E q \in DOMAIN cupos : q # ultimo.carrera

\* C3 as stated (SpecCupos): reducir_cupo(p) followed by incrementar_cupo(p)
\* leaves the count of p equal to its value before the reservation call, for
\* every seat count.
C3_IdaYVueltaSiempre ==
    (/\ previo.op = "reducir_cupo"
     /\ ultimo.op = "incrementar_cupo"
     /\ ultimo.carrera = previo.carrera)
        => Get(cupos, ultimo.carrera, 0) = previo.cupoAntes

\* C3 as amended (SpecCupos): reducir_cupo(p) followed by incrementar_cupo(p)
\* restores the count of p when the reservation returned True (count > 0);
\* when it returned False the count of p ends one above its value before.
C3_IdaYVueltaSiReservo ==
    (/\ previo.op = "reducir_cupo"
     /\ ultimo.op = "incrementar_cupo"
     /\ ultimo.carrera = previo.carrera)
        => /\ (previo.ret = "True") <=> (previo.cupoAntes > 0)
           /\ previo.ret = "True" => Get(cupos, ultimo.carrera, 0) = previo.cupoAntes
           /\ previo.ret = "False" => Get(cupos, ultimo.carrera, 0) = previo.cupoAntes + 1

\* a reservation that succeeded, released by the next call
C3_Testigo ==
    /\ previo.op = "reducir_cupo"
    /\ previo.ret = "True"
    /\ ultimo.op = "incrementar_cupo"
    /\ ultimo.carrera = previo.carrera

\* C4 (Spec): the estado of an Asignacion changes only PENDIENTE -> ASIGNADO or
\* PENDIENTE -> RECHAZADO in a call of asignar, and ASIGNADO -> CANCELADO in a
\* call of cancelar.
C4_SoloTransicionesValidas ==
    [][\A i \in 1 .. Len(asignaciones) :
          LET e1 == asignaciones[i].estado
              e2 == asignaciones'[i].estado
          IN  \/ e2 = e1
              \/ /\ e1 = "PENDIENTE"
                 /\ e2 \in {"ASIGNADO", "RECHAZADO"}
                 /\ ultimo'.op = "asignar"
              \/ /\ e1 = "ASIGNADO"
                 /\ e2 = "CANCELADO"
                 /\ ultimo'.op = "cancelar"]_vars

\* C5 (Spec): when a call of asignar leaves estado ASIGNADO, the count of the
\* assignment's carrera_id was > 0 and puntaje_total >= 600 at the call, and
\* the registry differs only by that count being 1 lower; in every other
\* outcome of asignar the registry is as before.
C5_AsignarConsumeUnCupo ==
    ultimo.op = "asignar" =>
        LET a == asignaciones[ultimo.asig]
        IN  /\ a.estado = "ASIGNADO" =>
                /\ Get(ultimo.antes, a.carrera_id, 0) > 0
                /\ a.puntaje_total >= Minimo
                /\ SoloCambia(ultimo.antes, cupos, a.carrera_id, 0 - 1)
            /\ a.estado # "ASIGNADO" => cupos = ultimo.antes

\* an assignment with exactly the minimum score was given a seat
C5_Testigo ==
    /\ ultimo.op = "asignar"
    /\ asignaciones[ultimo.asig].estado = "ASIGNADO"
    /\ asignaciones[ultimo.asig].puntaje_total = Minimo

\* C6 (Spec): asignar on an Asignacion that is already ASIGNADO or RECHAZADO
\* changes neither its estado nor the registry and reports the existing state.
C6_AsignarTerminalNoHaceNada ==
    (ultimo.op = "asignar" /\ ultimo.estadoAntes \in {"ASIGNADO", "RECHAZADO"}) =>
        /\ asignaciones[ultimo.asig].estado = ultimo.estadoAntes
        /\ cupos = ultimo.antes
        /\ (ultimo.ret = "True") <=> (ultimo.estadoAntes = "ASIGNADO")

\* C7 (Spec): cancelar raises the count of the assignment's carrera_id by 1,
\* and changes nothing else of the registry, when estado was ASIGNADO at the
\* call; when estado was PENDIENTE, RECHAZADO or CANCELADO the registry is as
\* before.
C7_CancelarLiberaSoloSiAsignado ==
    ultimo.op = "cancelar" =>
        IF ultimo.estadoAntes = "ASIGNADO"
        THEN SoloCambia(ultimo.antes, cupos, ultimo.carrera, 1)
        ELSE cupos = ultimo.antes

\* an assignment that held a seat was cancelled
C7_Testigo ==
    /\ ultimo.op = "cancelar"
    /\ ultimo.estadoAntes = "ASIGNADO"
    /\ asignaciones[ultimo.asig].estado = "CANCELADO"

\* C8 (SpecCupos): validar_todos_requisitos(p, score) returns ok=True exactly
\* when score >= 600 and the count of p is > 0, and leaves the registry as it
\* was.
C8_ValidarTodosRequisitos ==
    ultimo.op = "validar_todos_requisitos" =>
        /\ (ultimo.ret = "True") <=>
               (ultimo.puntaje >= Minimo /\ Get(ultimo.antes, ultimo.carrera, 0) > 0)
        /\ cupos = ultimo.antes

\* score 600.00 with a seat available was found eligible
C8_Testigo ==
    /\ ultimo.op = "validar_todos_requisitos"
    /\ ultimo.puntaje = Minimo
    /\ ultimo.ret = "True"

\* C9 as stated (SpecCupos): with score < 600 the call returns ok=False with
\* the insufficient-score reason whatever the seat count, and the no-seats
\* reason is returned only when score >= 600 and the count is <= 0.
C9_PuntajeSeValidaPrimero ==
    ultimo.op = "validar_todos_requisitos" =>
        /\ ultimo.puntaje < Minimo =>
               (ultimo.ret = "False" /\ ultimo.mensaje = "Puntaje insuficiente")
        /\ ultimo.mensaje = "Sin cupos disponibles" =>
               (ultimo.puntaje >= Minimo /\ Get(ultimo.antes, ultimo.carrera, 0) <= 0)

\* C9 as amended (SpecCupos): with score < 600 the call returns ok=False
\* whatever the seat count; the reason is the no-seats one exactly when the
\* count is <= 0 (whatever the score) and the insufficient-score one exactly
\* when the count is > 0 and score < 600.
C9_CuposSeValidanPrimero ==
    ultimo.op = "validar_todos_requisitos" =>
        /\ ultimo.puntaje < Minimo => ultimo.ret = "False"
        /\ (ultimo.mensaje = "Sin cupos disponibles") <=>
               (Get(ultimo.antes, ultimo.carrera, 0) <= 0)
        /\ (ultimo.mensaje = "Puntaje insuficiente") <=>
               (Get(ultimo.antes, ultimo.carrera, 0) > 0 /\ ultimo.puntaje < Minimo)

\* a score below 600 checked against a program without seats
C9_Testigo ==
    /\ ultimo.op = "validar_todos_requisitos"
    /\ ultimo.puntaje < Minimo
    /\ Get(ultimo.antes, ultimo.carrera, 0) <= 0
    /\ ultimo.mensaje = "Sin cupos disponibles"

\* C10 (SpecSegmento): for every marker dict calcular returns a segment that
\* is one of the seven names of ORDEN_SEGMENTOS, with the priority equal to the
\* 1-based position of that segment in ORDEN_SEGMENTOS.
C10_CalcularTotal ==
    resultado # SinResultado =>
        \E i \in 1 .. Len(ORDEN_SEGMENTOS) :
            /\ ORDEN_SEGMENTOS[i] = resultado.segmento
            /\ resultado.prioridad = i

\* a dict with absent keys was classified in the tier after the unused one
C10_Testigo ==
    /\ resultado.segmento = "PUEBLOS_NACIONALIDADES"
    /\ resultado.prioridad = 5
    /\ DOMAIN marcadores # ClavesMarcadores

\* the keys whose 'SI' gives CUOTAS
ClavesCuotas ==
    {"condicion_socioeconomica", "ruralidad", "discapacidad", "pueblos_nacionalidades",
     "victima_violencia", "migrantes_retornados"}

\* key k is present in the classified dict with the value 'SI'
EsSI(k) == k \in DOMAIN marcadores /\ marcadores[k] = "SI"

\* C11 (SpecSegmento): calcular returns the first tier, in the order CUOTAS,
\* VULNERABILIDAD, MERITO_ACADEMICO, PUEBLOS_NACIONALIDADES, BACHILLERES, whose
\* condition holds: CUOTAS whenever any of the six quota markers is 'SI',
\* whatever the other markers, and GENERAL with priority 7 exactly when no tier
\* condition holds.
C11_PrimerTramoGana ==
    resultado # SinResultado =>
        LET cuotas == \E k \in ClavesCuotas : EsSI(k)
            vulnerable == EsSI("vulnerabilidad_socioeconomica")
            merito == EsSI("merito_academico")
            pueblos == EsSI("bachiller_pueblos_nacionalidad")
            bachiller == EsSI("bachiller_periodo_academico")
            seg == resultado.segmento
        IN  /\ cuotas <=> seg = "CUOTAS"
            /\ (~cuotas /\ vulnerable) <=> seg = "VULNERABILIDAD"
            /\ (~cuotas /\ ~vulnerable /\ merito) <=> seg = "MERITO_ACADEMICO"
            /\ (~cuotas /\ ~vulnerable /\ ~merito /\ pueblos)
                   <=> seg = "PUEBLOS_NACIONALIDADES"
            /\ (~cuotas /\ ~vulnerable /\ ~merito /\ ~pueblos /\ bachiller)
                   <=> seg = "BACHILLERES"
            /\ (~cuotas /\ ~vulnerable /\ ~merito /\ ~pueblos /\ ~bachiller)
                   <=> (seg = "GENERAL" /\ resultado.prioridad = 7)

\* ruralidad and vulnerabilidad_socioeconomica both 'SI' were classified CUOTAS
C11_Testigo ==
    /\ EsSI("ruralidad")
    /\ EsSI("vulnerabilidad_socioeconomica")
    /\ resultado.segmento = "CUOTAS"
    /\ resultado.prioridad = 1

\* C12 (SpecSegmento): calcular never returns the segment RECONOCIMIENTOS and
\* never returns priority 4.
C12_NuncaReconocimientos ==
    /\ resultado.segmento # "RECONOCIMIENTOS"
    /\ resultado.prioridad # 4

\* dicts were classified in the tiers on both sides of the unused one
C12_Testigo ==
    /\ resultado.segmento = "MERITO_ACADEMICO"
    /\ resultado.prioridad = 3
    /\ EsSI("bachiller_pueblos_nacionalidad")

\* object b has one component strictly above object a's and the other two equal
MayorEnUno(a, b) ==
    \/ /\ a.nota_grado < b.nota_grado
       /\ a.puntaje_evaluacion = b.puntaje_evaluacion
       /\ a.puntaje_meritos = b.puntaje_meritos
    \/ /\ a.nota_grado = b.nota_grado
       /\ a.puntaje_evaluacion < b.puntaje_evaluacion
       /\ a.puntaje_meritos = b.puntaje_meritos
    \/ /\ a.nota_grado = b.nota_grado
       /\ a.puntaje_evaluacion = b.puntaje_evaluacion
       /\ a.puntaje_meritos < b.puntaje_meritos

\* C13 (SpecPuntaje): for nota_grado in [0,10] and both puntajes in [0,1000]
\* the value calcular_puntaje_total returned lies in [0, 1000].
C13_PuntajeEnRango ==
    \A i \in 1 .. Len(puntajes) :
        /\ 0 <= puntajes[i].puntaje_final
        /\ puntajes[i].puntaje_final <= 1000 * 100

\* the largest inputs gave the largest score
C13_Testigo ==
    \E i \in 1 .. Len(puntajes) :
        /\ puntajes[i].nota_grado = 1000
        /\ puntajes[i].puntaje_evaluacion = 100000
        /\ puntajes[i].puntaje_meritos = 100000
        /\ puntajes[i].puntaje_final = 100000

\* C14 (SpecPuntaje): raising one of nota_grado, puntaje_evaluacion,
\* puntaje_meritos with the other two fixed never lowers the returned score.
C14_Monotono ==
    \A i, j \in 1 .. Len(puntajes) :
        MayorEnUno(puntajes[i], puntajes[j]) =>
            puntajes[i].puntaje_final <= puntajes[j].puntaje_final

\* two scores computed from inputs of which one was raised by 0.01
C14_Testigo ==
    \E i, j \in 1 .. Len(puntajes) :
        /\ MayorEnUno(puntajes[i], puntajes[j])
        /\ puntajes[j].puntaje_evaluacion = puntajes[i].puntaje_evaluacion + 1

\* C15 (SpecPuntaje): the returned score is min(0.30*(100*g) + 0.50*e + 0.20*m,
\* 1000) rounded to 2 decimals (within half a hundredth of it); (10, 1000,
\* 1000) gives 1000, (0, 0, 0) gives 0 and (9.5, 850, 200) gives 750.00.
C15_FormulaPonderada ==
    \A i \in 1 .. Len(puntajes) :
        LET p == puntajes[i]
            suma == 3000 * p.nota_grado + 50 * p.puntaje_evaluacion
                        + 20 * p.puntaje_meritos
            exacto == IF suma <= 10000000 THEN suma ELSE 10000000
            dif == 100 * p.puntaje_final - exacto
        IN  /\ (0 - 50) <= dif /\ dif <= 50
            /\ (p.nota_grado = 1000 /\ p.puntaje_evaluacion = 100000
                    /\ p.puntaje_meritos = 100000) => p.puntaje_final = 100000
            /\ (p.nota_grado = 0 /\ p.puntaje_evaluacion = 0
                    /\ p.puntaje_meritos = 0) => p.puntaje_final = 0
            /\ (p.nota_grado = 950 /\ p.puntaje_evaluacion = 85000
                    /\ p.puntaje_meritos = 20000) => p.puntaje_final = 75000

\* the score of (9.5, 850, 200) was computed
C15_Testigo ==
    \E i \in 1 .. Len(puntajes) :
        /\ puntajes[i].nota_grado = 950
        /\ puntajes[i].puntaje_evaluacion = 85000
        /\ puntajes[i].puntaje_meritos = 20000
        /\ puntajes[i].puntaje_final = 75000

\* C16 (SpecPuntaje): a PuntajePostulacion(...) call that fails its validation
\* leaves no object behind and leaves the class counter obtener_total()
\* returns as it was before the call.
C16_FalloSinMutacion ==
    ultimoP.error # "None" =>
        /\ Len(puntajes) = ultimoP.creadosAntes
        /\ contadorPuntajes = ultimoP.contadorAntes

\* C17 (SpecExcel): no two rows of registros_nacionales carry the same
\* cedula, whatever the interleaving of the insertar_registro calls, and an
\* insertar_registro of a cedula that is in the sheet returns False and adds
\* no row.
C17_CedulaUnica ==
    /\ \A i, j \in 1 .. Len(registros_nacionales) :
           i # j => registros_nacionales[i].cedula # registros_nacionales[j].cedula
    /\ (ultimoE.op = "insertar_registro" /\ FilasDe(ultimoE.antes, ultimoE.cedula) # {})
           => (ultimoE.ret = "False" /\ registros_nacionales = ultimoE.antes)

\* a calificacion a row may hold: a number of [0, 10]
EnRangoCalificacion(c) == c.tipo = "num" /\ 0 <= c.valor /\ c.valor <= 1000

\* C18 (SpecExcel): every row of registros_nacionales has a calificacion in
\* [0, 10] after any insertar_registro and actualizar_registro calls; a call
\* that returned failure wrote nothing.
C18_CalificacionEnRango ==
    /\ \A i \in 1 .. Len(registros_nacionales) :
           EnRangoCalificacion(registros_nacionales[i].calificacion)
    /\ (ultimoE.op \in {"insertar_registro", "actualizar_registro"}
            /\ ultimoE.ret = "False") => registros_nacionales = ultimoE.antes

\* C19 (SpecExcel): when eliminar_registro(c) has returned success, no row of
\* registros_nacionales and no row of inscripciones, evaluaciones,
\* asignaciones or puntajes carries the cedula c.
C19_EliminarNoDejaFilas ==
    (ultimoE.op = "eliminar_registro" /\ ultimoE.ret = "True") =>
        /\ FilasDe(registros_nacionales, ultimoE.cedula) = {}
        /\ \A h \in HojasDependientes :
               \A k \in 1 .. Len(dependientes[h]) : dependientes[h][k] # ultimoE.cedula

C24_NadieEsperaSuCerrojo ==
    \A t \in HilosExcel : ~(pcE[t] = "_obtener_siguiente_id" /\ cerrojo = t)

\* C22 (SpecWeb): insertar_registro, actualizar_registro and eliminar_registro
\* are called only while handling a request whose session rol is ADMIN, and a
\* request of a session with rol ESTUDIANTE or of no session leaves
\* registros_nacionales as it was.
C22_SoloAdministradores ==
    /\ ultimaW.llamada # "None" => ultimaW.rol = "ADMIN"
    /\ (ultimaW.ruta # "None" /\ ultimaW.rol # "ADMIN")
           => registros_nacionales = ultimaW.antes

\* a logged-in student asked to delete a record that exists, and it is still there
C22_Testigo ==
    /\ ultimaW.ruta = "opcion3_eliminar"
    /\ ultimaW.rol = "ESTUDIANTE"
    /\ FilasDe(registros_nacionales, ultimaW.cedula) # {}

\* C23 (SpecEvaluacion): whenever puntaje_total is set it is the score that the
\* object's tipo_calculo gives for the notes and extras stored at that moment.
C23_PuntajeAlDia ==
    evaluacion.puntaje_total # Ninguna =>
        evaluacion.puntaje_total.valor \in PuntajeSegunTipo(evaluacion)

\* the cedulas of the rows of a sheet
CedulasDe(filas) == {filas[i].cedula : i \in 1 .. Len(filas)}

\* C25 (SpecInsertar): concurrent insertar_registro calls with pairwise
\* distinct, valid, absent cedulas all return success, the return of each
\* appends its one row to the sheet as it stands at that moment, no other step
\* changes the sheet and no cedula ever has two rows: no insert is lost.
C25_NingunInsertPerdido ==
    /\ [](/\ ultimoE.op = "insertar_registro" => ultimoE.ret = "True"
          /\ \A c \in CedulasDe(registros_nacionales) :
                 Cardinality(FilasDe(registros_nacionales, c)) = 1)
    /\ [][/\ \A t \in HilosExcel :
                 pcE[t] = "insertar_registro" /\ pcE'[t] = "libre" =>
                     /\ registros_nacionales' = Append(registros_nacionales,
                            [cedula |-> argE[t].cedula,
                             calificacion |-> argE[t].calificacion])
                     /\ ultimoE'.ret = "True"
          /\ registros_nacionales' # registros_nacionales =>
                 \E t \in HilosExcel :
                     pcE[t] = "insertar_registro" /\ pcE'[t] = "libre"]_vars

\* the row of one call has been saved while another thread, which already
\* passed its existence check, is still before its write
C25_Testigo ==
    /\ Len(registros_nacionales) = 2
    /\ ultimoE.op = "insertar_registro"
    /\ ultimoE.ret = "True"
    /\ \E t \in HilosExcel :
           /\ pcE[t] = "insertar_registro"
           /\ argE[t].cedula \notin CedulasDe(registros_nacionales)
\* the assignments of program p whose estado is ASIGNADO
Asignadas(p) ==
    {i \in 1 .. Len(asignaciones) :
        asignaciones[i].carrera_id = p /\ asignaciones[i].estado = "ASIGNADO"}

\* C26 (SpecConservacion): for every configured program the remaining seats
\* plus the number of its assignments in estado ASIGNADO equal the capacity it
\* was configured with.
C26_ConservacionDeCupos ==
    \A p \in DOMAIN cuposIniciales :
        Get(cupos, p, 0) + Cardinality(Asignadas(p)) = cuposIniciales[p]

\* C27 (SpecPolitica): no call switches a marker from 'SI' back to 'NO', and
\* prioridad_segmento never increases from one state to the next.
C27_PrioridadNoSube ==
    [][/\ \A k \in DOMAIN marcadores : marcadores[k] = "SI" => marcadores'[k] = "SI"
       /\ resultado'.prioridad <= resultado.prioridad]_vars

\* calcular_segmento moved the applicant from GENERAL to CUOTAS
C27_Testigo ==
    /\ ultimaPAA.op = "calcular_segmento"
    /\ ultimaPAA.prioridadAntes = 7
    /\ resultado.prioridad = 1

\* C28 (SpecPolitica): the vulnerability marker is never 'SI' without the
\* socioeconomic-condition marker, and calcular_segmento never returns
\* VULNERABILIDAD.
C28_NuncaVulnerabilidad ==
    /\ marcadores["vulnerabilidad_socioeconomica"] = "SI"
           => marcadores["condicion_socioeconomica"] = "SI"
    /\ resultado.segmento # "VULNERABILIDAD"

\* an applicant of quintil 1 and nothing else was classified, as CUOTAS
C28_Testigo ==
    /\ ultimaPAA.op = "calcular_segmento"
    /\ marcadores["vulnerabilidad_socioeconomica"] = "SI"
    /\ \A k \in ClavesCuotas \ {"condicion_socioeconomica"} : marcadores[k] = "NO"
    /\ resultado.segmento = "CUOTAS"

\* the last call was an assignment to the puntaje_meritos property
FueAsignacionDeMeritos == "op" \in DOMAIN ultimoP

\* C29 (SpecMeritos): the puntaje_final of every object is calcular_puntaje_total
\* of the components it stores; an assignment to puntaje_meritos of a value
\* outside [0, 1000] raises and leaves the object as it was.
C29_FinalAlDia ==
    /\ \A i \in 1 .. Len(puntajes) :
           puntajes[i].puntaje_final \in
               calcular_puntaje_total(puntajes[i].nota_grado,
                                      puntajes[i].puntaje_evaluacion,
                                      puntajes[i].puntaje_meritos)
    /\ FueAsignacionDeMeritos =>
           /\ (ultimoP.valor < 0 \/ ultimoP.valor > 100000) <=> ultimoP.error # "None"
           /\ ultimoP.error # "None" => puntajes[ultimoP.objeto] = ultimoP.antes
           /\ ultimoP.error = "None" =>
                  puntajes[ultimoP.objeto].puntaje_meritos = ultimoP.valor

\* an object with 200 merit points and the total 750.00 was assigned 1000.01
\* merit points
C29_Testigo ==
    /\ FueAsignacionDeMeritos
    /\ ultimoP.valor = 100001
    /\ ultimoP.error = "meritos"
    /\ ultimoP.antes.puntaje_meritos = 20000
    /\ ultimoP.antes.puntaje_final = 75000
\* C30 (SpecOferta): no cupos_asignados entry is negative and the seats
\* assigned over all segments do not exceed cupos_total, that is,
\* calcularCuposDisponibles() without a segment is not negative.
C30_AsignadosDentroDelTotal ==
    /\ \A seg \in DOMAIN oferta.cupos_asignados : oferta.cupos_asignados[seg] >= 0
    /\ calcularCuposDisponibles(oferta, "None") >= 0

====
